---- MODULE Spec2Model ----
(***************************************************************************)
(* Model of the card metadata cache of TTSDeckSlicer (src/arkhamdb_api.py):*)
(* the class-level shared caches of ArkhamDBAPI, the single-loader         *)
(* protocol of _ensure_cards_loaded, the catalog loader _load_all_cards,   *)
(* the publish step _set_shared_data, the reference sync                   *)
(* _sync_shared_references, the single-card lookup get_card, the query     *)
(* engine search_cards / get_card_name_suggestions, the rate limiter       *)
(* _rate_limit, and the background loader CardLoaderThread with its        *)
(* dialog (src/card_search_dialog.py).                                     *)
(*                                                                         *)
(* Python objects are modelled by a heap indexed by a load generation:     *)
(* generation 0 holds the objects created with the class (None, {}, [],    *)
(* {}), generation g >= 1 the objects created by the g-th publish.  A      *)
(* reference is the generation of the object it points to.                 *)
(***************************************************************************)
EXTENDS Integers, Sequences, FiniteSets, TLC

\* ------------------------------------------------------------------ bounds
NumThreads == 2
NumInstances == 2
MaxCalls == 2

Threads == 1..NumThreads
Instances == 1..NumInstances
MaxGen == MaxCalls
Gens == 0..MaxGen

\* ------------------------------------------------------- strings and cards
\* A string is a sequence of characters; str.lower() maps each character.
LowerChar(ch) ==
    CASE ch = "A" -> "a"
      [] ch = "B" -> "b"
      [] OTHER -> ch

Lower(s) == [k \in 1..Len(s) |-> LowerChar(s[k])]

\* dict.get(key): a sequence of length 0 (None / key absent) or 1 (the value)
GetOpt(card, key) == IF key \in DOMAIN card THEN <<card[key]>> ELSE <<>>

\* (card.get(key) or '')
GetStr(card, key) == IF key \in DOMAIN card THEN card[key] ELSE <<>>

\* card.get(key, '') for the faction and type codes, compared as atoms
GetAtom(card, key) == IF key \in DOMAIN card THEN card[key] ELSE ""

\* bool(card.get('code'))
HasCode(card) == "code" \in DOMAIN card /\ card["code"] # <<>>

\* An element of a JSON list that is not an object of string fields makes
\* card.get(...) / .lower() raise.
IsCardRecord(e) == "nonobject" \notin DOMAIN e

CardA == [code |-> <<"a">>, name |-> <<"X">>]
CardA2 == [code |-> <<"a">>, name |-> <<"Y">>]
CardB == [code |-> <<"B">>, name |-> <<"Z">>, encounter_code |-> "rats"]
CardNoCode == [name |-> <<"N">>]
Junk == [nonobject |-> TRUE]

\* The JSON lists a catalog endpoint may answer with.
CatalogLists ==
    { <<>>, <<CardA>>, <<CardA, CardB>>, <<CardA, CardA2>>,
      <<CardA2, CardB>>, <<CardB, CardNoCode>>, <<Junk>>, <<CardB, Junk>> }

\* What one GET can produce: an exception in the transport, a non-200
\* status, a body that is not JSON, a JSON value that is not a list, a list.
ResponsesOver(lists) ==
    { [kind |-> k, items |-> <<>>] : k \in {"error", "status", "badjson", "object"} }
    \cup { [kind |-> "list", items |-> l] : l \in lists }

Responses == ResponsesOver(CatalogLists)

\* The answers used where several threads interleave: failure, an empty
\* list, a good catalog, a list with an element that is no card record.
FewLists == { <<>>, <<CardA>>, <<Junk>> }

FewResponses == ResponsesOver(FewLists)

\* ------------------------------------------------------------ search index
EncounterFactions == {"mythos", "neutral"}
EncounterTypes == {"enemy", "treachery", "location", "agenda", "act", "scenario"}

_is_encounter_card(card) ==
    \/ (GetAtom(card, "faction_code") \in EncounterFactions
        /\ GetAtom(card, "type_code") \in EncounterTypes)
    \/ "encounter_code" \in DOMAIN card
    \/ "encounter_position" \in DOMAIN card

IndexEntry(card) ==
    [card |-> card,
     name |-> Lower(GetStr(card, "name")),
     code |-> Lower(GetStr(card, "code")),
     subname |-> Lower(GetStr(card, "subname")),
     traits |-> Lower(GetStr(card, "traits")),
     text |-> Lower(GetStr(card, "text")),
     is_encounter |-> _is_encounter_card(card)]

\* _build_search_index raises when an element is not a card record
BuildRaises(cards) == \E k \in 1..Len(cards) : ~IsCardRecord(cards[k])

_build_search_index(cards) == [k \in 1..Len(cards) |-> IndexEntry(cards[k])]

\* {card['code']: card for card in cards if card.get('code')}: last one wins
LastWithCode(cards, c) ==
    cards[CHOOSE k \in 1..Len(cards) :
             /\ HasCode(cards[k]) /\ cards[k]["code"] = c
             /\ \A j \in (k+1)..Len(cards) :
                   ~(HasCode(cards[j]) /\ cards[j]["code"] = c)]

CardsByCode(cards) ==
    [c \in {cards[k]["code"] : k \in {j \in 1..Len(cards) : HasCode(cards[j])}}
        |-> LastWithCode(cards, c)]

\* {entry['card'].get('code'): entry for entry in index if entry['card'].get('code')}
LastEntryWithCode(index, c) ==
    index[CHOOSE k \in 1..Len(index) :
             /\ HasCode(index[k].card) /\ index[k].card["code"] = c
             /\ \A j \in (k+1)..Len(index) :
                   ~(HasCode(index[j].card) /\ index[j].card["code"] = c)]

IndexByCode(index) ==
    [c \in {index[k].card["code"] :
               k \in {j \in 1..Len(index) : HasCode(index[j].card)}}
        |-> LastEntryWithCode(index, c)]

\* The empty dict {} and the placeholder of a heap cell not yet created
EmptyDict == [c \in {} |-> CardA]

\* ------------------------------------------------------------------- state
VARIABLES
    \* class attributes of ArkhamDBAPI (references into the heap)
    _shared_all_cards_cache, _shared_cards_cache,
    _shared_search_index, _shared_index_by_code,
    _shared_loading, _cache_lock,
    \* the heap: the objects of each generation
    heapAll, heapCards, heapIndex, heapByCode, nextGen,
    \* instance attributes, per instance
    _all_cards_cache, _cards_cache, _search_index, _index_by_code,
    \* per thread: position, the instance it calls on, locals, return value
    pc, self, cards, search_index, gen, site, ep, success, exc, ret, arg, result,
    \* per thread: the operation in progress, the arguments of search_cards
    \* and the list it returned
    op, query, limit, include_encounter, combined,
    \* history: calls made, instances called on so far, who set the loading
    \* flag, loader runs started, False->True changes of the flag, loader
    \* runs that published nothing, whether all threads' first calls were
    \* open together on the Empty cache, the codes get_card has fetched and
    \* stored
    calls, instUsed, owner, loaderRuns, transitions, failedRuns, concurrentStart,
    fetched,
    \* history, per thread: the responses its current or last loader run got
    received,
    \* the clock (time.time()), per instance the time of its last request,
    \* per thread the locals of _rate_limit; history: the time at which the
    \* last call of _rate_limit returned, on any instance
    clock, _last_request_time, now, wake, lastReturn,
    \* per dialog and its CardLoaderThread: iterations of the loop in run(),
    \* its local success, the values emitted on the finished signal, and the
    \* dialog's loader_thread, cards_loaded and results_info
    attempts, run_success, finished, loader_thread, cards_loaded, results_info,
    \* per dialog: the text of its search box at the last textChanged
    _last_query,
    \* history, per thread: the last two of its _rate_limit calls and GETs,
    \* each with the instance it was made on
    wire,
    \* UndoManager: its stacks and max_history, and the value its last undo
    \* or redo returned; ImageSplitter.tile_names
    undo_stack, redo_stack, max_history, undo_ret, tile_names,
    \* history: the number of operations made on the manager or the window,
    \* the names of the last two, tile_names and the two stacks as they
    \* were before each of these two, and the action the last one pushed
    edits, last_ops, names_before, stacks_before, last_pushed

sharedVars == <<_shared_all_cards_cache, _shared_cards_cache,
                _shared_search_index, _shared_index_by_code>>
heapVars == <<heapAll, heapCards, heapIndex, heapByCode, nextGen>>
instVars == <<_all_cards_cache, _cards_cache, _search_index, _index_by_code>>
searchVars == <<op, query, limit, include_encounter, combined>>
localVars == <<self, cards, search_index, gen, site, ep, success, exc, ret, arg,
               searchVars>>
histVars == <<calls, instUsed, owner, loaderRuns, transitions, failedRuns,
              concurrentStart, fetched>>
rateVars == <<clock, _last_request_time, now, wake, lastReturn>>
taskVars == <<attempts, run_success, finished, loader_thread, cards_loaded,
              results_info>>
undoVars == <<undo_stack, redo_stack, max_history, undo_ret, tile_names,
              edits, last_ops, names_before, stacks_before, last_pushed>>
vars == <<sharedVars, _shared_loading, _cache_lock, heapVars, instVars,
          pc, localVars, result, histVars, received, rateVars, taskVars,
          _last_query, wire, undoVars>>

\* References: 0 is None for the all-cards list and the object created with
\* the class for the three others.
NoneRef == 0
NoThread == 0

\* 100 ms, line 28, in ticks of the clock (one tick is 50 ms)
_min_request_interval == 2

\* line 27 of __init__; the clock is time.time(), far more than one interval
\* after 0 when the program starts
RateInit ==
    /\ clock = _min_request_interval
    /\ _last_request_time = [i \in Instances |-> 0]
    /\ now = [t \in Threads |-> 0]
    /\ wake = [t \in Threads |-> 0]
    /\ lastReturn = -1

\* CardSearchDialog.__init__ (card_search_dialog.py lines 42-54) on an Empty
\* cache: cards_loaded is False, the label says loading, the start of the
\* loader thread is pending on the timer of line 54
TaskInit ==
    /\ attempts = [t \in Threads |-> 0]
    /\ run_success = [t \in Threads |-> FALSE]
    /\ finished = [t \in Threads |-> <<>>]
    /\ loader_thread = [t \in Threads |-> "pending"]
    /\ cards_loaded = [t \in Threads |-> FALSE]
    /\ results_info = [t \in Threads |-> "loading"]

\* A dict of tile names: a function from some tiles to names; {} is the
\* function with no tile
NoNames == [tile \in {} |-> <<>>]

\* None as a return value of UndoManager.undo and redo; a dict d is <<d>>
None == <<>>

\* undo_manager.py line 15: max_history: int = 50
DefaultMaxHistory == 50

\* UndoManager.__init__ (undo_manager.py lines 15-19) as called without
\* argument at TTSDeckSlicer.py line 343, and self.tile_names = {} of
\* line 366
WindowInit ==
    /\ undo_stack = <<>>
    /\ redo_stack = <<>>
    /\ max_history = DefaultMaxHistory
    /\ undo_ret = None
    /\ tile_names = NoNames
    /\ edits = 0
    /\ last_ops = <<>>
    /\ names_before = <<>>
    /\ stacks_before = <<>>
    /\ last_pushed = <<>>

\* ArkhamDBAPI class body and __init__ of every instance, before any call
Init ==
    /\ _shared_all_cards_cache = NoneRef
    /\ _shared_cards_cache = 0
    /\ _shared_search_index = 0
    /\ _shared_index_by_code = 0
    /\ _shared_loading = FALSE
    /\ _cache_lock = NoThread
    /\ heapAll = [g \in Gens |-> <<>>]
    /\ heapCards = [g \in Gens |-> EmptyDict]
    /\ heapIndex = [g \in Gens |-> <<>>]
    /\ heapByCode = [g \in Gens |-> EmptyDict]
    /\ nextGen = 1
    /\ _all_cards_cache = [i \in Instances |-> NoneRef]
    /\ _cards_cache = [i \in Instances |-> 0]
    /\ _search_index = [i \in Instances |-> 0]
    /\ _index_by_code = [i \in Instances |-> 0]
    /\ pc = [t \in Threads |-> "idle"]
    /\ self = [t \in Threads |-> 1]
    /\ cards = [t \in Threads |-> <<>>]
    /\ search_index = [t \in Threads |-> <<>>]
    /\ gen = [t \in Threads |-> 0]
    /\ site = [t \in Threads |-> "none"]
    /\ ep = [t \in Threads |-> 0]
    /\ success = [t \in Threads |-> FALSE]
    /\ exc = [t \in Threads |-> FALSE]
    /\ ret = [t \in Threads |-> "none"]
    /\ arg = [t \in Threads |-> <<>>]
    /\ result = [t \in Threads |-> "none"]
    /\ op = [t \in Threads |-> "none"]
    /\ query = [t \in Threads |-> <<>>]
    /\ limit = [t \in Threads |-> <<>>]
    /\ include_encounter = [t \in Threads |-> TRUE]
    /\ combined = [t \in Threads |-> <<>>]
    /\ calls = 0
    /\ instUsed = 0
    /\ owner = NoThread
    /\ loaderRuns = 0
    /\ transitions = 0
    /\ failedRuns = 0
    /\ concurrentStart = FALSE
    /\ fetched = {}
    /\ received = [t \in Threads |-> <<>>]
    /\ RateInit
    /\ TaskInit
    /\ _last_query = [d \in Threads |-> <<>>]
    /\ wire = [t \in Threads |-> <<>>]
    /\ WindowInit

\* Where a thread is after _ensure_cards_loaded returns or raises: back in
\* CardLoaderThread.run (card_search_dialog.py line 26) or in search_cards
\* (line 198) when that made the call, else at its caller.
AfterEnsure(t) ==
    IF op[t] = "run" THEN "run_ret"
    ELSE IF op[t] # "none" THEN "search" ELSE "idle"

\* The locals of a call of _ensure_cards_loaded or get_card end with the
\* call; a search_cards frame that made the call goes on with its own.
ResetLocals(t) ==
    /\ self' = [self EXCEPT ![t] = IF op[t] # "none" THEN @ ELSE 1]
    /\ UNCHANGED searchVars
    /\ cards' = [cards EXCEPT ![t] = <<>>]
    /\ search_index' = [search_index EXCEPT ![t] = <<>>]
    /\ gen' = [gen EXCEPT ![t] = 0]
    /\ site' = [site EXCEPT ![t] = "none"]
    /\ ep' = [ep EXCEPT ![t] = 0]
    /\ success' = [success EXCEPT ![t] = FALSE]
    /\ exc' = [exc EXCEPT ![t] = FALSE]
    /\ ret' = [ret EXCEPT ![t] = "none"]
    /\ arg' = [arg EXCEPT ![t] = <<>>]

\* A call is made on any of the first n instances.  The instances are alike
\* until they are first called on, so a call on an instance never used
\* before takes the lowest-numbered one.
PickInstance(t, n) ==
    \E i \in 1..(IF instUsed < n THEN instUsed + 1 ELSE n) :
       /\ self' = [self EXCEPT ![t] = i]
       /\ instUsed' = IF i > instUsed THEN i ELSE instUsed

\* ---------------------------------------------------- _ensure_cards_loaded
\* A thread calls api._ensure_cards_loaded() on one of n instances, when
\* fewer than max calls have been made.
CallEnsure(t, n, max) ==
    /\ pc[t] = "idle"
    /\ calls < max
    /\ PickInstance(t, n)
    /\ pc' = [pc EXCEPT ![t] = "fast"]
    /\ result' = [result EXCEPT ![t] = "none"]
    /\ calls' = calls + 1
    /\ concurrentStart' =
          (concurrentStart
           \/ (/\ _shared_all_cards_cache = NoneRef
               /\ ~_shared_loading
               /\ calls' = NumThreads
               /\ \A u \in Threads : pc'[u] = "fast"))
    /\ UNCHANGED <<sharedVars, _shared_loading, _cache_lock, heapVars, instVars,
                   cards, search_index, gen, site, ep, success, exc, ret, arg, searchVars,
                   owner, loaderRuns, transitions, failedRuns, fetched, received,
                   rateVars, taskVars,
                   _last_query, wire, undoVars>>

\* line 71: the lock-free check of the fast path
FastPath(t) ==
    /\ pc[t] = "fast"
    /\ IF _shared_all_cards_cache # NoneRef
         THEN /\ pc' = [pc EXCEPT ![t] = "sync1"]
              /\ ret' = [ret EXCEPT ![t] = "return_true"]
         ELSE /\ pc' = [pc EXCEPT ![t] = "acquire"]
              /\ UNCHANGED ret
    /\ UNCHANGED <<sharedVars, _shared_loading, _cache_lock, heapVars, instVars,
                   self, cards, search_index, gen, site, ep, success, exc, arg, searchVars,
                   result, histVars, received,
                   rateVars, taskVars,
                   _last_query, wire, undoVars>>

\* _sync_shared_references, lines 175-178: four separate reads and writes
Sync1(t) ==
    /\ pc[t] = "sync1"
    /\ _all_cards_cache' = [_all_cards_cache EXCEPT ![self[t]] = _shared_all_cards_cache]
    /\ pc' = [pc EXCEPT ![t] = "sync2"]
    /\ UNCHANGED <<sharedVars, _shared_loading, _cache_lock, heapVars,
                   _cards_cache, _search_index, _index_by_code,
                   localVars, result, histVars, received,
                   rateVars, taskVars,
                   _last_query, wire, undoVars>>

Sync2(t) ==
    /\ pc[t] = "sync2"
    /\ _cards_cache' = [_cards_cache EXCEPT ![self[t]] = _shared_cards_cache]
    /\ pc' = [pc EXCEPT ![t] = "sync3"]
    /\ UNCHANGED <<sharedVars, _shared_loading, _cache_lock, heapVars,
                   _all_cards_cache, _search_index, _index_by_code,
                   localVars, result, histVars, received,
                   rateVars, taskVars,
                   _last_query, wire, undoVars>>

Sync3(t) ==
    /\ pc[t] = "sync3"
    /\ _search_index' = [_search_index EXCEPT ![self[t]] = _shared_search_index]
    /\ pc' = [pc EXCEPT ![t] = "sync4"]
    /\ UNCHANGED <<sharedVars, _shared_loading, _cache_lock, heapVars,
                   _all_cards_cache, _cards_cache, _index_by_code,
                   localVars, result, histVars, received,
                   rateVars, taskVars,
                   _last_query, wire, undoVars>>

\* line 178 inside the loader (called from line 171 or line 88)
Sync4(t) ==
    /\ pc[t] = "sync4"
    /\ ret[t] # "return_true"
    /\ _index_by_code' = [_index_by_code EXCEPT ![self[t]] = _shared_index_by_code]
    /\ pc' = [pc EXCEPT ![t] = ret[t]]
    /\ UNCHANGED <<sharedVars, _shared_loading, _cache_lock, heapVars,
                   _all_cards_cache, _cards_cache, _search_index,
                   localVars, result, histVars, received,
                   rateVars, taskVars,
                   _last_query, wire, undoVars>>

\* line 178 followed by the return True of line 73 or of line 79, where
\* leaving the with block releases the lock
Sync4Return(t) ==
    /\ pc[t] = "sync4"
    /\ ret[t] = "return_true"
    /\ _index_by_code' = [_index_by_code EXCEPT ![self[t]] = _shared_index_by_code]
    /\ result' = [result EXCEPT ![t] = "true"]
    /\ pc' = [pc EXCEPT ![t] = AfterEnsure(t)]
    /\ _cache_lock' = IF _cache_lock = t THEN NoThread ELSE _cache_lock
    /\ ResetLocals(t)
    /\ UNCHANGED <<sharedVars, _shared_loading, heapVars,
                   _all_cards_cache, _cards_cache, _search_index, histVars, received,
                   rateVars, taskVars,
                   _last_query, wire, undoVars>>

\* lines 76-79: the lock is taken (the thread waits while another holds
\* it) and the cache was populated meanwhile
LockedPopulated(t) ==
    /\ pc[t] = "acquire"
    /\ _cache_lock = NoThread
    /\ _shared_all_cards_cache # NoneRef
    /\ _cache_lock' = t
    /\ pc' = [pc EXCEPT ![t] = "sync1"]
    /\ ret' = [ret EXCEPT ![t] = "return_true"]
    /\ UNCHANGED <<sharedVars, _shared_loading, heapVars, instVars,
                   self, cards, search_index, gen, site, ep, success, exc, arg, searchVars,
                   result, histVars, received,
                   rateVars, taskVars,
                   _last_query, wire, undoVars>>

\* LockedLoading without the return: the call goes on to the loader
LockedLoading_FallsThrough(t) ==
    /\ pc[t] = "acquire"
    /\ _cache_lock = NoThread
    /\ _shared_all_cards_cache = NoneRef
    /\ _shared_loading
    /\ pc' = [pc EXCEPT ![t] = "load"]
    /\ UNCHANGED <<sharedVars, _shared_loading, _cache_lock, heapVars, instVars,
                   localVars, result, histVars, received,
                   rateVars, taskVars,
                   _last_query, wire, undoVars>>

\* LockedLoading with the test of the flag placed before the second look
\* at the all-cards list
LockedLoading_FlagFirst(t) ==
    /\ pc[t] = "acquire"
    /\ _cache_lock = NoThread
    /\ _shared_loading
    /\ result' = [result EXCEPT ![t] = "false"]
    /\ pc' = [pc EXCEPT ![t] = AfterEnsure(t)]
    /\ ResetLocals(t)
    /\ UNCHANGED <<sharedVars, _shared_loading, _cache_lock, heapVars, instVars,
                   histVars, received,
                   rateVars, taskVars,
                   _last_query, wire, undoVars>>

\* lines 76-82: the lock is taken, another thread is already loading:
\* return False, which releases the lock
LockedLoading(t) ==
    /\ pc[t] = "acquire"
    /\ _cache_lock = NoThread
    /\ _shared_all_cards_cache = NoneRef
    /\ _shared_loading
    /\ result' = [result EXCEPT ![t] = "false"]
    /\ pc' = [pc EXCEPT ![t] = AfterEnsure(t)]
    /\ ResetLocals(t)
    /\ UNCHANGED <<sharedVars, _shared_loading, _cache_lock, heapVars, instVars,
                   histVars, received,
                   rateVars, taskVars,
                   _last_query, wire, undoVars>>

\* SetLoading without the second look at the all-cards list (line 77)
SetLoading_NoRecheck(t) ==
    /\ pc[t] = "acquire"
    /\ _cache_lock = NoThread
    /\ ~_shared_loading
    /\ _shared_loading' = TRUE
    /\ owner' = t
    /\ transitions' = transitions + 1
    /\ pc' = [pc EXCEPT ![t] = "load"]
    /\ UNCHANGED <<sharedVars, _cache_lock, heapVars, instVars, localVars, result,
                   calls, instUsed, loaderRuns, failedRuns, concurrentStart, fetched, received,
                   rateVars, taskVars,
                   _last_query, wire, undoVars>>

\* SetLoading without the test of the loading flag (line 80)
SetLoading_NoFlagCheck(t) ==
    /\ pc[t] = "acquire"
    /\ _cache_lock = NoThread
    /\ _shared_all_cards_cache = NoneRef
    /\ _shared_loading' = TRUE
    /\ owner' = t
    /\ transitions' = IF _shared_loading THEN transitions ELSE transitions + 1
    /\ pc' = [pc EXCEPT ![t] = "load"]
    /\ UNCHANGED <<sharedVars, _cache_lock, heapVars, instVars, localVars, result,
                   calls, instUsed, loaderRuns, failedRuns, concurrentStart, fetched, received,
                   rateVars, taskVars,
                   _last_query, wire, undoVars>>

\* SetLoading with the loader called inside the with block
SetLoading_KeepsLock(t) ==
    /\ pc[t] = "acquire"
    /\ _cache_lock = NoThread
    /\ _shared_all_cards_cache = NoneRef
    /\ ~_shared_loading
    /\ _shared_loading' = TRUE
    /\ _cache_lock' = t
    /\ owner' = t
    /\ transitions' = transitions + 1
    /\ pc' = [pc EXCEPT ![t] = "load"]
    /\ UNCHANGED <<sharedVars, heapVars, instVars, localVars, result,
                   calls, instUsed, loaderRuns, failedRuns, concurrentStart, fetched, received,
                   rateVars, taskVars,
                   _last_query, wire, undoVars>>

\* lines 76-83: the lock is taken, the flag is set, the with block ends
SetLoading(t) ==
    /\ pc[t] = "acquire"
    /\ _cache_lock = NoThread
    /\ _shared_all_cards_cache = NoneRef
    /\ ~_shared_loading
    /\ _shared_loading' = TRUE
    /\ owner' = t
    /\ transitions' = transitions + 1
    /\ pc' = [pc EXCEPT ![t] = "load"]
    /\ UNCHANGED <<sharedVars, _cache_lock, heapVars, instVars, localVars, result,
                   calls, instUsed, loaderRuns, failedRuns, concurrentStart, fetched, received,
                   rateVars, taskVars,
                   _last_query, wire, undoVars>>

\* --------------------------------------------------------- _load_all_cards
\* lines 85-86: enter the try block and call the loader
StartLoader(t) ==
    /\ pc[t] = "load"
    /\ loaderRuns' = loaderRuns + 1
    /\ received' = [received EXCEPT ![t] = <<>>]
    /\ pc' = [pc EXCEPT ![t] = "get_all"]
    /\ UNCHANGED <<sharedVars, _shared_loading, _cache_lock, heapVars, instVars,
                   localVars, result, calls, instUsed, owner, transitions,
                   failedRuns, concurrentStart, fetched,
                   rateVars, taskVars,
                   _last_query, wire, undoVars>>

\* An all-in-one request whose list counts only when it holds two cards or
\* more
GetAllOn_NeedsTwo(t, r) ==
    /\ pc[t] = "get_all"
    /\ IF r.kind = "list" /\ Len(r.items) > 1
         THEN /\ cards' = [cards EXCEPT ![t] = r.items]
              /\ site' = [site EXCEPT ![t] = "allinone"]
              /\ pc' = [pc EXCEPT ![t] = "build"]
              /\ UNCHANGED ep
         ELSE /\ cards' = [cards EXCEPT ![t] = <<>>]
              /\ ep' = [ep EXCEPT ![t] = 1]
              /\ pc' = [pc EXCEPT ![t] = "get_ep"]
              /\ UNCHANGED site
    /\ UNCHANGED <<sharedVars, _shared_loading, _cache_lock, heapVars, instVars,
                   self, search_index, gen, success, exc, ret, arg, searchVars,
                   result, histVars, rateVars, taskVars,
                   _last_query, undoVars>>

\* lines 96-110: rate limit, then the all-in-one request; anything but a
\* 200 with a non-empty list (and any exception) falls through to the
\* fallback, which starts with cards = [] (lines 117-118)
GetAllOn(t, r) ==
    /\ pc[t] = "get_all"
    /\ IF r.kind = "list" /\ Len(r.items) > 0
         THEN /\ cards' = [cards EXCEPT ![t] = r.items]
              /\ site' = [site EXCEPT ![t] = "allinone"]
              /\ pc' = [pc EXCEPT ![t] = "build"]
              /\ UNCHANGED ep
         ELSE /\ cards' = [cards EXCEPT ![t] = <<>>]
              /\ ep' = [ep EXCEPT ![t] = 1]
              /\ pc' = [pc EXCEPT ![t] = "get_ep"]
              /\ UNCHANGED site
    /\ UNCHANGED <<sharedVars, _shared_loading, _cache_lock, heapVars, instVars,
                   self, search_index, gen, success, exc, ret, arg, searchVars,
                   result, histVars, rateVars, taskVars,
                   _last_query, undoVars>>

\* The all-in-one request answered by any of answers
GetAll(t, answers) ==
    \E r \in answers : GetAllOn(t, r) /\ UNCHANGED <<received, wire>>

\* The same, with the response kept in the record of the run
GetAllRecorded(t, answers) ==
    \E r \in answers :
       /\ GetAllOn(t, r)
       /\ received' = [received EXCEPT ![t] = Append(@, r)]
       /\ UNCHANGED wire

\* cards.extend(card for card in endpoint_cards
\*              if card.get('code') not in existing_codes), lines 143-144:
\* the items are appended one by one; an element that makes card.get raise
\* ends the extension and leaves what was appended before it
\* An extension that takes every element of the later tier
ExtendNew_KeepsAll(acc, items, k, existing_codes) == acc \o items

RECURSIVE ExtendNew(_, _, _, _)
ExtendNew(acc, items, k, existing_codes) ==
    IF k > Len(items) \/ ~IsCardRecord(items[k])
      THEN acc
      ELSE ExtendNew(IF GetOpt(items[k], "code") \in existing_codes
                       THEN acc
                       ELSE Append(acc, items[k]),
                     items, k + 1, existing_codes)

\* lines 134-148: merge one fallback response into the accumulator
MergeEndpoint(acc, r) ==
    IF r.kind # "list"
      THEN acc
      ELSE IF acc = <<>>
        THEN r.items
        ELSE IF BuildRaises(acc)
          THEN acc
          ELSE ExtendNew(acc, r.items, 1,
                         {GetOpt(acc[k], "code") : k \in 1..Len(acc)})

NumEndpoints == 2

\* lines 126-148: rate limit, then one fallback request
GetEndpointOn(t, r) ==
    /\ pc[t] = "get_ep"
    /\ cards' = [cards EXCEPT ![t] = MergeEndpoint(cards[t], r)]
    /\ IF ep[t] < NumEndpoints
         THEN /\ ep' = [ep EXCEPT ![t] = @ + 1]
              /\ UNCHANGED pc
         ELSE /\ pc' = [pc EXCEPT ![t] = "fb_done"]
              /\ UNCHANGED ep
    /\ UNCHANGED <<sharedVars, _shared_loading, _cache_lock, heapVars, instVars,
                   self, search_index, gen, site, success, exc, ret, arg, searchVars,
                   result, histVars, rateVars, taskVars,
                   _last_query, undoVars>>

\* One fallback request answered by any of answers
GetEndpoint(t, answers) ==
    \E r \in answers : GetEndpointOn(t, r) /\ UNCHANGED <<received, wire>>

\* The same, with the response kept in the record of the run
GetEndpointRecorded(t, answers) ==
    \E r \in answers :
       /\ GetEndpointOn(t, r)
       /\ received' = [received EXCEPT ![t] = Append(@, r)]
       /\ UNCHANGED wire

\* lines 150-155: publish the merged list, or return False
FallbackDone(t) ==
    /\ pc[t] = "fb_done"
    /\ IF cards[t] # <<>>
         THEN /\ site' = [site EXCEPT ![t] = "fallback"]
              /\ pc' = [pc EXCEPT ![t] = "build"]
              /\ UNCHANGED <<success, failedRuns>>
         ELSE /\ success' = [success EXCEPT ![t] = FALSE]
              /\ failedRuns' = failedRuns + 1
              /\ pc' = [pc EXCEPT ![t] = "finally"]
              /\ UNCHANGED site
    /\ UNCHANGED <<sharedVars, _shared_loading, _cache_lock, heapVars, instVars,
                   self, cards, search_index, gen, ep, exc, ret, arg, searchVars,
                   result, calls, instUsed, owner, loaderRuns, transitions,
                   concurrentStart, fetched, received,
                   rateVars, taskVars,
                   _last_query, wire, undoVars>>

\* ---------------------------------------------------------- _set_shared_data
\* line 159: build the index outside the lock.  An exception is caught at
\* line 113 when the call comes from line 110 (the fallback follows), and
\* leaves the loader and _ensure_cards_loaded (through its finally) when it
\* comes from line 151.
Build(t) ==
    /\ pc[t] = "build"
    /\ IF BuildRaises(cards[t])
         THEN IF site[t] = "allinone"
                THEN /\ cards' = [cards EXCEPT ![t] = <<>>]
                     /\ ep' = [ep EXCEPT ![t] = 1]
                     /\ pc' = [pc EXCEPT ![t] = "get_ep"]
                     /\ UNCHANGED <<exc, failedRuns, search_index>>
                ELSE /\ exc' = [exc EXCEPT ![t] = TRUE]
                     /\ failedRuns' = failedRuns + 1
                     /\ pc' = [pc EXCEPT ![t] = "finally"]
                     /\ UNCHANGED <<search_index, cards, ep>>
         ELSE /\ search_index' = [search_index EXCEPT ![t] = _build_search_index(cards[t])]
              /\ pc' = [pc EXCEPT ![t] = "publish"]
              /\ UNCHANGED <<exc, failedRuns, cards, ep>>
    /\ UNCHANGED <<sharedVars, _shared_loading, _cache_lock, heapVars, instVars,
                   self, gen, site, success, ret, arg, searchVars,
                   result, calls, instUsed, owner, loaderRuns, transitions,
                   concurrentStart, fetched, received,
                   rateVars, taskVars,
                   _last_query, wire, undoVars>>

\* lines 160-161: take the lock, assign the all-cards list
Publish1(t) ==
    /\ pc[t] = "publish"
    /\ _cache_lock = NoThread
    /\ _cache_lock' = t
    /\ gen' = [gen EXCEPT ![t] = nextGen]
    /\ nextGen' = nextGen + 1
    /\ heapAll' = [heapAll EXCEPT ![nextGen] = cards[t]]
    /\ _shared_all_cards_cache' = nextGen
    /\ pc' = [pc EXCEPT ![t] = "pub2"]
    /\ UNCHANGED <<_shared_cards_cache, _shared_search_index, _shared_index_by_code,
                   _shared_loading, heapCards, heapIndex, heapByCode,
                   instVars, self, cards, search_index, site, ep, success, exc,
                   ret, arg, searchVars, result, histVars, received,
                   rateVars, taskVars,
                   _last_query, wire, undoVars>>

\* A publish step whose critical section ends after the second assignment
Publish2_ReleasesLock(t) ==
    /\ pc[t] = "pub2"
    /\ heapCards' = [heapCards EXCEPT ![gen[t]] = CardsByCode(cards[t])]
    /\ _shared_cards_cache' = gen[t]
    /\ _cache_lock' = NoThread
    /\ pc' = [pc EXCEPT ![t] = "pub3"]
    /\ UNCHANGED <<_shared_all_cards_cache, _shared_search_index, _shared_index_by_code,
                   _shared_loading, heapAll, heapIndex, heapByCode,
                   nextGen, instVars, localVars, result, histVars, received,
                   rateVars, taskVars,
                   _last_query, wire, undoVars>>

\* lines 162-164
Publish2(t) ==
    /\ pc[t] = "pub2"
    /\ heapCards' = [heapCards EXCEPT ![gen[t]] = CardsByCode(cards[t])]
    /\ _shared_cards_cache' = gen[t]
    /\ pc' = [pc EXCEPT ![t] = "pub3"]
    /\ UNCHANGED <<_shared_all_cards_cache, _shared_search_index, _shared_index_by_code,
                   _shared_loading, _cache_lock, heapAll, heapIndex, heapByCode,
                   nextGen, instVars, localVars, result, histVars, received,
                   rateVars, taskVars,
                   _last_query, wire, undoVars>>

\* line 165
Publish3(t) ==
    /\ pc[t] = "pub3"
    /\ heapIndex' = [heapIndex EXCEPT ![gen[t]] = search_index[t]]
    /\ _shared_search_index' = gen[t]
    /\ pc' = [pc EXCEPT ![t] = "pub4"]
    /\ UNCHANGED <<_shared_all_cards_cache, _shared_cards_cache, _shared_index_by_code,
                   _shared_loading, _cache_lock, heapAll, heapCards, heapByCode,
                   nextGen, instVars, localVars, result, histVars, received,
                   rateVars, taskVars,
                   _last_query, wire, undoVars>>

\* lines 166-171: the last assignment, the end of the with block, and the
\* call of _sync_shared_references
Publish4(t) ==
    /\ pc[t] = "pub4"
    /\ heapByCode' = [heapByCode EXCEPT ![gen[t]] = IndexByCode(search_index[t])]
    /\ _shared_index_by_code' = gen[t]
    /\ _cache_lock' = NoThread
    /\ pc' = [pc EXCEPT ![t] = "sync1"]
    /\ ret' = [ret EXCEPT ![t] = "loaded"]
    /\ UNCHANGED <<_shared_all_cards_cache, _shared_cards_cache, _shared_search_index,
                   _shared_loading, heapAll, heapCards, heapIndex, nextGen,
                   instVars, self, cards, search_index, gen, site, ep, success,
                   exc, arg, searchVars, result, histVars, received,
                   rateVars, taskVars,
                   _last_query, wire, undoVars>>

\* lines 111-112 / 152-153 (return True) and lines 86-88 (success, sync)
Loaded(t) ==
    /\ pc[t] = "loaded"
    /\ success' = [success EXCEPT ![t] = TRUE]
    /\ pc' = [pc EXCEPT ![t] = "sync1"]
    /\ ret' = [ret EXCEPT ![t] = "finally"]
    /\ UNCHANGED <<sharedVars, _shared_loading, _cache_lock, heapVars, instVars,
                   self, cards, search_index, gen, site, ep, exc, arg, searchVars,
                   result, histVars, received,
                   rateVars, taskVars,
                   _last_query, wire, undoVars>>

\* Finally as an except-free epilogue: an exception of the loader skips it
Finally_NotOnException(t) ==
    /\ pc[t] = "finally"
    /\ _cache_lock = NoThread
    /\ _shared_loading' = IF exc[t] THEN _shared_loading ELSE FALSE
    /\ owner' = IF exc[t] THEN owner ELSE NoThread
    /\ result' = [result EXCEPT ![t] =
                     IF exc[t] THEN "raised"
                     ELSE IF success[t] THEN "true" ELSE "false"]
    /\ pc' = [pc EXCEPT ![t] = AfterEnsure(t)]
    /\ ResetLocals(t)
    /\ UNCHANGED <<sharedVars, _cache_lock, heapVars, instVars,
                   calls, instUsed, loaderRuns, transitions, failedRuns,
                   concurrentStart, fetched, received,
                   rateVars, taskVars,
                   _last_query, wire, undoVars>>

\* Finally as an else branch of the try: the flag is cleared only when the
\* loader returned True
Finally_OnlyOnSuccess(t) ==
    /\ pc[t] = "finally"
    /\ _cache_lock = NoThread
    /\ _shared_loading' = IF success[t] THEN FALSE ELSE _shared_loading
    /\ owner' = IF success[t] THEN NoThread ELSE owner
    /\ result' = [result EXCEPT ![t] =
                     IF exc[t] THEN "raised"
                     ELSE IF success[t] THEN "true" ELSE "false"]
    /\ pc' = [pc EXCEPT ![t] = AfterEnsure(t)]
    /\ ResetLocals(t)
    /\ UNCHANGED <<sharedVars, _cache_lock, heapVars, instVars,
                   calls, instUsed, loaderRuns, transitions, failedRuns,
                   concurrentStart, fetched, received,
                   rateVars, taskVars,
                   _last_query, wire, undoVars>>

\* lines 89-92: the finally block takes the lock, clears the flag, releases
\* the lock; then the call returns success, or the exception goes on
Finally(t) ==
    /\ pc[t] = "finally"
    /\ _cache_lock = NoThread
    /\ _shared_loading' = FALSE
    /\ owner' = NoThread
    /\ result' = [result EXCEPT ![t] =
                     IF exc[t] THEN "raised"
                     ELSE IF success[t] THEN "true" ELSE "false"]
    /\ pc' = [pc EXCEPT ![t] = AfterEnsure(t)]
    /\ ResetLocals(t)
    /\ UNCHANGED <<sharedVars, _cache_lock, heapVars, instVars,
                   calls, instUsed, loaderRuns, transitions, failedRuns,
                   concurrentStart, fetched, received,
                   rateVars, taskVars,
                   _last_query, wire, undoVars>>

\* ------------------------------------------------------------------ get_card
\* self._cards_cache[code] = card on a dict
Put(d, k, v) == [x \in DOMAIN d \cup {k} |-> IF x = k THEN v ELSE d[x]]

\* The card the remote service holds for a code
RemoteCard(code) == [code |-> code, name |-> <<"X">>]

NumCardEndpoints == 2

\* lines 41-42: the code is in the dict the instance refers to
GetCardHit(t, codes, max) ==
    /\ pc[t] = "idle"
    /\ calls < max
    /\ \E code \in codes :
       \E i \in 1..(IF instUsed < NumInstances THEN instUsed + 1 ELSE NumInstances) :
          /\ code \in DOMAIN heapCards[_cards_cache[i]]
          /\ instUsed' = IF i > instUsed THEN i ELSE instUsed
    /\ result' = [result EXCEPT ![t] = "hit"]
    /\ calls' = calls + 1
    /\ UNCHANGED <<sharedVars, _shared_loading, _cache_lock, heapVars, instVars,
                   pc, localVars, owner, loaderRuns, transitions, failedRuns,
                   concurrentStart, fetched, received,
                   rateVars, taskVars,
                   _last_query, wire, undoVars>>

\* lines 41-49: the code is not cached: go on to the endpoints
GetCardMiss(t, codes, max) ==
    /\ pc[t] = "idle"
    /\ calls < max
    /\ PickInstance(t, NumInstances)
    /\ \E code \in codes :
          /\ code \notin DOMAIN heapCards[_cards_cache[self'[t]]]
          /\ arg' = [arg EXCEPT ![t] = code]
    /\ ep' = [ep EXCEPT ![t] = 1]
    /\ pc' = [pc EXCEPT ![t] = "gc_get"]
    /\ result' = [result EXCEPT ![t] = "none"]
    /\ calls' = calls + 1
    /\ UNCHANGED <<sharedVars, _shared_loading, _cache_lock, heapVars, instVars,
                   cards, search_index, gen, site, success, exc, ret, searchVars,
                   owner, loaderRuns, transitions, failedRuns, concurrentStart, fetched, received,
                   rateVars, taskVars,
                   _last_query, wire, undoVars>>

\* A get_card that remembers a miss: after the last endpoint has failed an
\* empty record is stored under the code
GetCardFetch_CachesMiss(t) ==
    /\ pc[t] = "gc_get"
    /\ \/ /\ heapCards' = [heapCards EXCEPT ![_cards_cache[self[t]]] =
                                Put(@, arg[t], RemoteCard(arg[t]))]
          /\ fetched' = fetched \cup {arg[t]}
          /\ result' = [result EXCEPT ![t] = "fetched"]
          /\ pc' = [pc EXCEPT ![t] = "idle"]
          /\ ResetLocals(t)
       \/ /\ ep[t] < NumCardEndpoints
          /\ ep' = [ep EXCEPT ![t] = @ + 1]
          /\ UNCHANGED <<heapCards, fetched, result, pc, self, cards,
                         search_index, gen, site, success, exc, ret, arg,
                         searchVars>>
       \/ /\ ep[t] = NumCardEndpoints
          /\ heapCards' = [heapCards EXCEPT ![_cards_cache[self[t]]] =
                                Put(@, arg[t], [name |-> <<>>])]
          /\ result' = [result EXCEPT ![t] = "absent"]
          /\ pc' = [pc EXCEPT ![t] = "idle"]
          /\ ResetLocals(t)
          /\ UNCHANGED fetched
    /\ UNCHANGED <<sharedVars, _shared_loading, _cache_lock,
                   heapAll, heapIndex, heapByCode, nextGen, instVars,
                   calls, instUsed, owner, loaderRuns, transitions, failedRuns,
                   concurrentStart, received, rateVars, taskVars,
                   _last_query, wire, undoVars>>

\* lines 51-67: rate limit, then one endpoint: a 200 with a JSON body is
\* stored in the dict the instance refers to now and returned; anything
\* else goes on to the next endpoint, and to return None after the last
GetCardFetchOn(t) ==
    /\ pc[t] = "gc_get"
    /\ \/ /\ heapCards' = [heapCards EXCEPT ![_cards_cache[self[t]]] =
                                Put(@, arg[t], RemoteCard(arg[t]))]
          /\ fetched' = fetched \cup {arg[t]}
          /\ result' = [result EXCEPT ![t] = "fetched"]
          /\ pc' = [pc EXCEPT ![t] = "idle"]
          /\ ResetLocals(t)
       \/ /\ ep[t] < NumCardEndpoints
          /\ ep' = [ep EXCEPT ![t] = @ + 1]
          /\ UNCHANGED <<heapCards, fetched, result, pc, self, cards,
                         search_index, gen, site, success, exc, ret, arg,
                         searchVars>>
       \/ /\ ep[t] = NumCardEndpoints
          /\ result' = [result EXCEPT ![t] = "absent"]
          /\ pc' = [pc EXCEPT ![t] = "idle"]
          /\ ResetLocals(t)
          /\ UNCHANGED <<heapCards, fetched>>
    /\ UNCHANGED <<sharedVars, _shared_loading, _cache_lock,
                   heapAll, heapIndex, heapByCode, nextGen, instVars,
                   calls, instUsed, owner, loaderRuns, transitions, failedRuns,
                   concurrentStart, received,
                   rateVars, taskVars,
                   _last_query, undoVars>>

\* One request of get_card
GetCardFetch(t) == GetCardFetchOn(t) /\ UNCHANGED wire

\* The codes looked up where several threads interleave
FewCodes == { <<"a">> }

\* ------------------------------------------------------------- specification
\* The loading protocol alone: the threads call _ensure_cards_loaded on one
\* instance (the lock, the flag and the shared views are class attributes;
\* no step of the protocol reads an instance attribute).
EnsureProceed(t) ==
    \/ FastPath(t)
    \/ Sync1(t)
    \/ Sync2(t)
    \/ Sync3(t)
    \/ Sync4(t)
    \/ Sync4Return(t)
    \/ LockedPopulated(t)
    \/ LockedLoading(t)
    \/ SetLoading(t)
    \/ StartLoader(t)
    \/ GetAll(t, FewResponses)
    \/ GetEndpoint(t, FewResponses)
    \/ FallbackDone(t)
    \/ Build(t)
    \/ Publish1(t)
    \/ Publish2(t)
    \/ Publish3(t)
    \/ Publish4(t)
    \/ Loaded(t)
    \/ Finally(t)

Proceed(t) ==
    \/ EnsureProceed(t)
    \/ GetCardFetch(t)

\* Calls are made by the callers; what runs inside a call is Proceed.
Call(t) ==
    \/ CallEnsure(t, NumInstances, MaxCalls)
    \/ GetCardHit(t, FewCodes, MaxCalls)
    \/ GetCardMiss(t, FewCodes, MaxCalls)

Step(t) == Call(t) \/ Proceed(t)

Next == \E t \in Threads : Step(t)

Spec == Init /\ [][Next]_vars

EnsureNext == \E t \in Threads : CallEnsure(t, 1, MaxCalls) \/ EnsureProceed(t)

\* Threads are scheduled and requests end (they carry a timeout): a thread
\* inside a call that can take a step eventually takes one.
FairSpec == Init /\ [][EnsureNext]_vars /\ \A t \in Threads : WF_vars(EnsureProceed(t))

\* One thread loading from a remote service that may answer any of Responses
LoaderStep(t) ==
    \/ CallEnsure(t, NumInstances, MaxCalls)
    \/ FastPath(t)
    \/ Sync1(t)
    \/ Sync2(t)
    \/ Sync3(t)
    \/ Sync4(t)
    \/ Sync4Return(t)
    \/ SetLoading(t)
    \/ StartLoader(t)
    \/ GetAllRecorded(t, Responses)
    \/ GetEndpointRecorded(t, Responses)
    \/ FallbackDone(t)
    \/ Build(t)
    \/ Publish1(t)
    \/ Publish2(t)
    \/ Publish3(t)
    \/ Publish4(t)
    \/ Loaded(t)
    \/ Finally(t)

LoaderNext == LoaderStep(1)

LoaderSpec == Init /\ [][LoaderNext]_vars


\* ------------------------------------------------------------------ notions
SyncPcs == {"sync1", "sync2", "sync3", "sync4"}

\* Positions inside _load_all_cards (line 96 to its return)
LoaderPcs == {"get_all", "get_ep", "fb_done", "build", "publish",
              "pub2", "pub3", "pub4", "loaded"}

InLoader(t) ==
    \/ pc[t] \in LoaderPcs
    \/ (pc[t] \in SyncPcs /\ ret[t] = "loaded")

\* Positions from which the next step is a rate-limit sleep and a GET
NetworkPcs == {"get_all", "get_ep", "gc_get"}

\* Between setting the loading flag (line 83) and clearing it (line 92)
InLoadingSection(t) ==
    \/ pc[t] \in {"load", "finally"}
    \/ InLoader(t)
    \/ (pc[t] \in SyncPcs /\ ret[t] = "finally")

Populated == _shared_all_cards_cache # NoneRef

\* ------------------------------------------------------------------- claims
\* C1: in every reachable state of every interleaving of calls by any
\* thread on any instance, at most one thread is inside the catalog loader.
C1_SingleLoader == Cardinality({t \in Threads : InLoader(t)}) <= 1

\* a loader is in flight while another thread's call is at the lock
C1_Witness ==
    \E t, u \in Threads :
       /\ t # u
       /\ InLoader(t)
       /\ pc[t] \in NetworkPcs
       /\ pc[u] = "acquire"

\* C8: a thread that is about to sleep in the rate limiter or to issue a
\* GET (catalog request, fallback tier, single-card fetch) never holds the
\* cache lock.
C8_NoNetworkUnderLock ==
    \A t \in Threads : pc[t] \in NetworkPcs => _cache_lock # t

\* one thread is on the network while another one holds the lock
C8_Witness ==
    \E t, u \in Threads :
       /\ t # u
       /\ pc[t] \in NetworkPcs
       /\ _cache_lock = u

\* A call of _ensure_cards_loaded by t returns True in this step
EnsureReturnsTrue(t) ==
    /\ pc[t] \in {"sync4", "finally"}
    /\ pc'[t] = "idle"
    /\ result'[t] = "true"

\* C2: whenever a call of _ensure_cards_loaded returns True, the four
\* references the calling instance then holds come from one and the same
\* load (never the new all-cards list with the old, empty search index).
C2_NoTornRead ==
    [][\A t \in Threads :
          EnsureReturnsTrue(t) =>
             /\ _all_cards_cache'[self[t]] # NoneRef
             /\ _cards_cache'[self[t]] = _all_cards_cache'[self[t]]
             /\ _search_index'[self[t]] = _all_cards_cache'[self[t]]
             /\ _index_by_code'[self[t]] = _all_cards_cache'[self[t]]]_vars

AllIdle == \A t \in Threads : pc[t] = "idle"

\* every thread's first call was a call of _ensure_cards_loaded, all of
\* them were open together on the Empty cache, and no other call was made
ConcurrentBatch == concurrentStart /\ calls = NumThreads

\* C3 as stated: of N concurrent calls on an Empty cache exactly one runs
\* the loader, and loader runs never outnumber Empty-to-Loading transitions.
C3_ExactlyOneLoader ==
    /\ loaderRuns <= transitions
    /\ ConcurrentBatch => loaderRuns <= 1
    /\ (ConcurrentBatch /\ AllIdle) => loaderRuns = 1

\* C3 as amended: of N concurrent calls on an Empty cache at least one runs
\* the loader, and exactly one does when no loader run ends without
\* publishing; loader runs never outnumber Empty-to-Loading transitions.
C3_OneLoaderUnlessFailed ==
    /\ loaderRuns <= transitions
    /\ (ConcurrentBatch /\ failedRuns = 0) => loaderRuns <= 1
    /\ (ConcurrentBatch /\ AllIdle) => loaderRuns >= 1

\* the concurrent calls are over, one of them loaded, the others did not
C3_Witness ==
    /\ ConcurrentBatch
    /\ AllIdle
    /\ failedRuns = 0
    /\ loaderRuns = 1
    /\ \A t \in Threads : result[t] = "true"

C5_OnlyOwnerPublishes ==
    [][/\ sharedVars' # sharedVars =>
             /\ _shared_loading
             /\ owner # NoThread
             /\ pc[owner] \in {"publish", "pub2", "pub3", "pub4"}
             /\ pc'[owner] # pc[owner]
             /\ _cache_lock = owner \/ _cache_lock' = owner
       /\ (owner' # owner /\ owner' # NoThread) =>
             /\ ~Populated
             /\ ~_shared_loading
             /\ owner = NoThread
       /\ _shared_all_cards_cache' # _shared_all_cards_cache => ~Populated]_vars

\* the thread that set the flag is in the middle of publishing
C5_Witness ==
    \E t \in Threads :
       /\ pc[t] = "pub3"
       /\ owner = t
       /\ _shared_loading
       /\ \E u \in Threads : u # t /\ pc[u] = "acquire"

\* C6: the loading flag is set exactly while the thread that set it is
\* between line 83 and line 92 of its call, whether its loader run has
\* succeeded, failed or raised; and under fair scheduling a set flag is
\* always cleared again.
C6_FlagAlwaysCleared ==
    /\ [](_shared_loading <=> owner # NoThread)
    /\ [](\A t \in Threads : owner = t => InLoadingSection(t))
    /\ [](\A t \in Threads : (pc[t] = "idle" /\ result[t] = "raised") => owner # t)
    /\ (_shared_loading ~> ~_shared_loading)

\* a call ended with the loader's exception and the flag is clear
C6_Witness ==
    /\ ~_shared_loading
    /\ \E t \in Threads : pc[t] = "idle" /\ result[t] = "raised"

\* C7: a call that takes the lock and finds the all-cards list None and
\* the loading flag set returns False in that step: it releases the lock,
\* changes neither the flag nor any shared view nor the heap, starts no
\* loader run, and the thread that is loading has not moved.
C7_ReturnsFalseAtOnce ==
    [][\A t \in Threads :
          (/\ pc[t] = "acquire"
           /\ ~Populated
           /\ _shared_loading
           /\ pc'[t] # pc[t]) =>
             /\ pc'[t] = "idle"
             /\ result'[t] = "false"
             /\ _cache_lock' = NoThread
             /\ UNCHANGED <<sharedVars, _shared_loading, heapVars,
                            loaderRuns, transitions, owner>>
             /\ owner # NoThread
             /\ owner # t
             /\ pc'[owner] = pc[owner]
             /\ InLoadingSection(owner)']_vars

\* a call was turned away and the loader it met is still running
C7_Witness ==
    \E t, u \in Threads :
       /\ t # u
       /\ pc[t] = "idle"
       /\ result[t] = "false"
       /\ owner = u
       /\ InLoader(u)
       /\ loaderRuns = 1

\* A call of _ensure_cards_loaded by t returns in this step
EnsureReturns(t) ==
    /\ pc[t] \in {"sync4", "acquire", "finally"}
    /\ pc'[t] = "idle"

\* C9: once the all-cards list is not None it never changes again, no new
\* generation is published, the loading flag is not set again, no loader
\* run starts, and every call of _ensure_cards_loaded that returns,
\* returns True.
C9_PopulatedIsFinal ==
    [][Populated =>
          /\ _shared_all_cards_cache' = _shared_all_cards_cache
          /\ nextGen' = nextGen
          /\ loaderRuns' = loaderRuns
          /\ transitions' = transitions
          /\ _shared_loading' => _shared_loading
          /\ \A t \in Threads : EnsureReturns(t) => result'[t] = "true"]_vars

\* the cache was loaded once and every call has returned True
C9_Witness ==
    /\ Populated
    /\ AllIdle
    /\ calls = MaxCalls
    /\ loaderRuns = 1
    /\ transitions = 1
    /\ \A t \in Threads : result[t] = "true"

\* The codes of a list of cards or entries, and of a dict, as optional values
CodesOfCards(l) == {GetOpt(l[k], "code") : k \in 1..Len(l)}
CodesOfIndex(l) == {GetOpt(l[k].card, "code") : k \in 1..Len(l)}
CodesOfDict(d) == {<<c>> : c \in DOMAIN d}

\* C10: after every successful load the all-cards list, the code-to-card
\* map, the search index and the code-to-index-entry map have the same
\* number of elements and the same set of codes, and rebuilding the index
\* from the all-cards list gives the published search index.
C10_ViewsAgree ==
    \A t \in Threads :
       (pc[t] = "idle" /\ result[t] = "true") =>
          LET g == _shared_all_cards_cache
          IN /\ g # NoneRef
             /\ _shared_cards_cache = g
             /\ _shared_search_index = g
             /\ _shared_index_by_code = g
             /\ Len(heapIndex[g]) = Len(heapAll[g])
             /\ Cardinality(DOMAIN heapCards[g]) = Len(heapAll[g])
             /\ Cardinality(DOMAIN heapByCode[g]) = Len(heapAll[g])
             /\ CodesOfDict(heapCards[g]) = CodesOfCards(heapAll[g])
             /\ CodesOfIndex(heapIndex[g]) = CodesOfCards(heapAll[g])
             /\ CodesOfDict(heapByCode[g]) = CodesOfCards(heapAll[g])
             /\ heapIndex[g] = _build_search_index(heapAll[g])

\* C11: after every successful load the published all-cards list holds no
\* two cards with the same code, whichever endpoint supplied them.
C11_NoDuplicateCodes ==
    \A t \in Threads :
       (pc[t] = "idle" /\ result[t] = "true" /\ Populated) =>
          LET all_cards == heapAll[_shared_all_cards_cache]
          IN \A j, k \in 1..Len(all_cards) :
                (j < k /\ HasCode(all_cards[j]) /\ HasCode(all_cards[k])) =>
                   all_cards[j]["code"] # all_cards[k]["code"]

\* ------------------------------------------------------------- search_cards
\* str.strip(): leading and trailing whitespace is removed
RECURSIVE LStrip(_)
LStrip(s) == IF s # <<>> /\ Head(s) = " " THEN LStrip(Tail(s)) ELSE s

RECURSIVE RStrip(_)
RStrip(s) ==
    IF s # <<>> /\ s[Len(s)] = " " THEN RStrip(SubSeq(s, 1, Len(s) - 1)) ELSE s

Strip(s) == RStrip(LStrip(s))

\* s.startswith(p) and p in s
StartsWith(s, p) == Len(p) <= Len(s) /\ SubSeq(s, 1, Len(p)) = p

Contains(s, p) ==
    \E k \in 0..(Len(s) - Len(p)) : SubSeq(s, k + 1, k + Len(p)) = p

\* NormQuery without the strip()
NormQuery_NoStrip(q) == Lower(IF q = <<>> THEN <<>> ELSE q[1])

\* An optional argument is a sequence of length 0 (None) or 1 (the value).
\* line 205: query = (query or "").strip().lower()
NormQuery(q) == Lower(Strip(IF q = <<>> THEN <<>> ELSE q[1]))

\* EffectiveLimit with the limit argument ignored
EffectiveLimit_Ignored(lim, index) == Len(index)

\* EffectiveLimit with only None taken as no limit
EffectiveLimit_NoneOnly(lim, index) == IF lim = <<>> THEN Len(index) ELSE lim[1]

\* lines 209-210: if not limit or limit <= 0: limit = len(index)
EffectiveLimit(lim, index) ==
    IF lim = <<>> \/ lim[1] <= 0 THEN Len(index) ELSE lim[1]

\* The tiers, in the order of the if/elif chain of lines 237-256
NoTier == 0
Exact == 1
Prefix == 2
Subname == 3
ContainsTier == 4
Traits == 5
Text == 6
Tiers == Exact..Text

\* TierOf with the substring test of names and codes placed first in the chain
TierOf_ContainsFirst(entry, q, include_text, budget_left) ==
    IF \/ Contains(entry.name, q)
       \/ Contains(entry.code, q)
       \/ (entry.subname # <<>> /\ Contains(entry.subname, q))
      THEN ContainsTier
    ELSE IF entry.traits # <<>> /\ Contains(entry.traits, q)
      THEN Traits
    ELSE IF include_text /\ budget_left /\ entry.text # <<>>
            /\ Contains(entry.text, q)
      THEN Text
    ELSE NoTier

\* TierOf with the text tier open to queries of any length
TierOf_TextAlways(entry, q, include_text, budget_left) ==
    IF q = entry.name \/ q = entry.code
      THEN Exact
    ELSE IF StartsWith(entry.name, q) \/ StartsWith(entry.code, q)
      THEN Prefix
    ELSE IF entry.subname # <<>>
            /\ (entry.subname = q \/ StartsWith(entry.subname, q))
      THEN Subname
    ELSE IF \/ Contains(entry.name, q)
            \/ Contains(entry.code, q)
            \/ (entry.subname # <<>> /\ Contains(entry.subname, q))
      THEN ContainsTier
    ELSE IF entry.traits # <<>> /\ Contains(entry.traits, q)
      THEN Traits
    ELSE IF budget_left /\ entry.text # <<>> /\ Contains(entry.text, q)
      THEN Text
    ELSE NoTier

\* lines 237-256: the first branch of the chain that an entry satisfies;
\* budget_left is the test total < limit of line 252
TierOf(entry, q, include_text, budget_left) ==
    IF q = entry.name \/ q = entry.code
      THEN Exact
    ELSE IF StartsWith(entry.name, q) \/ StartsWith(entry.code, q)
      THEN Prefix
    ELSE IF entry.subname # <<>>
            /\ (entry.subname = q \/ StartsWith(entry.subname, q))
      THEN Subname
    ELSE IF \/ Contains(entry.name, q)
            \/ Contains(entry.code, q)
            \/ (entry.subname # <<>> /\ Contains(entry.subname, q))
      THEN ContainsTier
    ELSE IF entry.traits # <<>> /\ Contains(entry.traits, q)
      THEN Traits
    ELSE IF include_text /\ budget_left /\ entry.text # <<>>
            /\ Contains(entry.text, q)
      THEN Text
    ELSE NoTier

\* Skipped with no entry ever skipped
Skipped_Never(entry, incl) == FALSE

\* lines 225-226: if not include_encounter and entry['is_encounter']: continue
Skipped(entry, incl) == ~incl /\ entry.is_encounter

\* Scan, going on to the end of the index when the limit is reached
RECURSIVE Scan_NoEarlyStop(_, _, _, _, _, _, _)
Scan_NoEarlyStop(index, k, q, lim, incl, matches, total) ==
    IF k > Len(index)
      THEN matches
      ELSE LET entry == index[k]
               tier == TierOf(entry, q, Len(q) >= 3, TRUE)
           IN IF Skipped(entry, incl) \/ tier = NoTier
                THEN Scan_NoEarlyStop(index, k + 1, q, lim, incl, matches, total)
                ELSE Scan_NoEarlyStop(index, k + 1, q, lim, incl,
                                      [matches EXCEPT ![tier] = Append(@, entry.card)],
                                      total + 1)

\* lines 224-259: the scan of the index from entry k on, with the six
\* lists collected so far and their total; the scan ends at the end of the
\* index or as soon as the total reaches the limit
RECURSIVE Scan(_, _, _, _, _, _, _)
Scan(index, k, q, lim, incl, matches, total) ==
    IF k > Len(index)
      THEN matches
      ELSE LET entry == index[k]
               tier == TierOf(entry, q, Len(q) >= 3, total < lim)
           IN IF Skipped(entry, incl) \/ tier = NoTier
                THEN Scan(index, k + 1, q, lim, incl, matches, total)
                ELSE LET added == [matches EXCEPT ![tier] = Append(@, entry.card)]
                     IN IF total + 1 >= lim
                          THEN added
                          ELSE Scan(index, k + 1, q, lim, incl, added, total + 1)

\* results[:limit] of line 264 and of line 290
Slice(results, lim_arg) ==
    IF lim_arg = <<>>
      THEN results
      ELSE IF lim_arg[1] >= 0
        THEN SubSeq(results, 1, IF lim_arg[1] < Len(results)
                                  THEN lim_arg[1] ELSE Len(results))
        ELSE SubSeq(results, 1, Len(results) + lim_arg[1])

\* lines 198-277: what search_cards returns when _ensure_cards_loaded has
\* returned loaded and the instance refers to index
search_cards(loaded, index, q_arg, lim_arg, incl) ==
    IF ~loaded \/ index = <<>>
      THEN <<>>
      ELSE LET q == NormQuery(q_arg)
               lim == EffectiveLimit(lim_arg, index)
           IN IF q = <<>>
                THEN <<>>
                ELSE LET m == Scan(index, 1, q, lim, incl,
                                   [tier \in Tiers |-> <<>>], 0)
                         all == m[Exact] \o m[Prefix] \o m[Subname]
                                \o m[ContainsTier] \o m[Traits] \o m[Text]
                     IN IF lim # 0 /\ Len(all) > lim
                          THEN Slice(all, <<lim>>)
                          ELSE all

\* lines 289-290
get_card_name_suggestions(loaded, index, q_arg, lim_arg, incl) ==
    Slice(search_cards(loaded, index, q_arg, lim_arg, incl), lim_arg)

\* A thread calls api.search_cards(query, limit, include_encounter) or
\* api.get_card_name_suggestions(...) on one of n instances; line 198 calls
\* _ensure_cards_loaded
CallSearch(t, n, max, ops, queries, limits) ==
    /\ pc[t] = "idle"
    /\ calls < max
    /\ PickInstance(t, n)
    /\ \E o \in ops, q \in queries, l \in limits, e \in BOOLEAN :
          /\ op' = [op EXCEPT ![t] = o]
          /\ query' = [query EXCEPT ![t] = q]
          /\ limit' = [limit EXCEPT ![t] = l]
          /\ include_encounter' = [include_encounter EXCEPT ![t] = e]
    /\ combined' = [combined EXCEPT ![t] = <<>>]
    /\ pc' = [pc EXCEPT ![t] = "fast"]
    /\ result' = [result EXCEPT ![t] = "none"]
    /\ calls' = calls + 1
    /\ UNCHANGED <<sharedVars, _shared_loading, _cache_lock, heapVars, instVars,
                   cards, search_index, gen, site, ep, success, exc, ret, arg,
                   owner, loaderRuns, transitions, failedRuns, concurrentStart,
                   fetched, received,
                   rateVars, taskVars,
                   _last_query, wire, undoVars>>

\* lines 198-277 (and 290) after _ensure_cards_loaded: an exception goes on
\* to the caller, False gives [], True the search over the index the
\* instance refers to.  The arguments stay readable with the result.
SearchReturn(t) ==
    /\ pc[t] = "search"
    /\ LET index == heapIndex[_search_index[self[t]]]
           loaded == result[t] = "true"
       IN combined' = [combined EXCEPT ![t] =
             IF op[t] = "suggest"
               THEN get_card_name_suggestions(loaded, index, query[t], limit[t],
                                              include_encounter[t])
               ELSE search_cards(loaded, index, query[t], limit[t],
                                 include_encounter[t])]
    /\ result' = [result EXCEPT ![t] =
                     IF result[t] = "raised" THEN "raised"
                     ELSE IF op[t] = "suggest" THEN "suggested" ELSE "returned"]
    /\ op' = [op EXCEPT ![t] = "none"]
    /\ self' = [self EXCEPT ![t] = 1]
    /\ pc' = [pc EXCEPT ![t] = "idle"]
    /\ UNCHANGED <<sharedVars, _shared_loading, _cache_lock, heapVars, instVars,
                   cards, search_index, gen, site, ep, success, exc, ret, arg,
                   query, limit, include_encounter, histVars, received,
                   rateVars, taskVars,
                   _last_query, wire, undoVars>>

\* ------------------------------------------------------------ one caller
\* One thread that uses the API call after call: _ensure_cards_loaded,
\* get_card for a code the catalog does not hold, search_cards and
\* get_card_name_suggestions, at most MaxClientCalls calls in all.
MaxClientCalls == 3

ClientCodes == { <<"c">> }

ClientQueries == { <<>>, << <<"X">> >> }

ClientLimits == { <<>>, <<1>> }

ClientStep(t) ==
    \/ CallEnsure(t, NumInstances, MaxClientCalls)
    \/ CallSearch(t, NumInstances, MaxClientCalls, {"search", "suggest"},
                  ClientQueries, ClientLimits)
    \/ GetCardHit(t, ClientCodes, MaxClientCalls)
    \/ GetCardMiss(t, ClientCodes, MaxClientCalls)
    \/ GetCardFetch(t)
    \/ FastPath(t)
    \/ Sync1(t)
    \/ Sync2(t)
    \/ Sync3(t)
    \/ Sync4(t)
    \/ Sync4Return(t)
    \/ SetLoading(t)
    \/ StartLoader(t)
    \/ GetAll(t, FewResponses)
    \/ GetEndpoint(t, FewResponses)
    \/ FallbackDone(t)
    \/ Build(t)
    \/ Publish1(t)
    \/ Publish2(t)
    \/ Publish3(t)
    \/ Publish4(t)
    \/ Loaded(t)
    \/ Finally(t)
    \/ SearchReturn(t)

ClientNext == ClientStep(1)

ClientSpec == Init /\ [][ClientNext]_vars

\* C12: once get_card has fetched and stored the card of a code, no later
\* get_card for that code goes to the transport: the call finds the code in
\* the per-card cache of its instance, whatever happened in between.
C12_FetchedStaysCached ==
    [][\A t \in Threads :
          (pc[t] = "idle" /\ pc'[t] = "gc_get") => arg'[t] \notin fetched]_vars

\* C13: a step of get_card leaves the contents of the shared all-cards
\* list, code-to-card map, search index and code-to-index-entry map as they
\* were, so the code-to-card map is empty while the cache is Empty and has
\* the codes of the all-cards list once published.
C13_GetCardLeavesViews ==
    [][\A t \in Threads :
          pc[t] = "gc_get" =>
             /\ heapAll'[_shared_all_cards_cache'] = heapAll[_shared_all_cards_cache]
             /\ heapCards'[_shared_cards_cache'] = heapCards[_shared_cards_cache]
             /\ heapIndex'[_shared_search_index'] = heapIndex[_shared_search_index]
             /\ heapByCode'[_shared_index_by_code'] = heapByCode[_shared_index_by_code]
             /\ ~Populated' => heapCards'[_shared_cards_cache'] = EmptyDict]_vars

\* C14: a thread inside search_cards while the cache is not populated
\* starts no loader run and does not get to a rate-limit sleep or a GET, and
\* the call returns the empty list.
C14_SearchStartsNoLoad ==
    [][\A t \in Threads :
          (op[t] # "none" /\ ~Populated) =>
             /\ loaderRuns' = loaderRuns
             /\ pc'[t] \notin NetworkPcs
             /\ pc'[t] = "idle" => combined'[t] = <<>>]_vars

\* ------------------------------------------------- searches on a loaded cache
\* Cards that fall into different tiers for the queries "ab" and "abc"
Roland == [code |-> <<"1">>, name |-> <<"A", "b">>, text |-> <<"a", "b", "c">>]
ByCode == [code |-> <<"a", "b", "c">>, name |-> <<"x">>]
BySubname == [code |-> <<"3">>, name |-> <<"x">>, subname |-> <<"a", "b", "c">>]
ByTraits == [code |-> <<"4">>, name |-> <<"x", "a", "b">>, traits |-> <<"a", "b", "c">>]
Enemy == [code |-> <<"5">>, name |-> <<"a", "b", "c", "x">>,
          faction_code |-> "mythos", type_code |-> "enemy"]
Other == [code |-> <<"6">>, name |-> <<"x", " ", "y">>, text |-> <<"x", "a", "b">>]

SearchCards == {Roland, ByCode, BySubname, ByTraits, Enemy, Other}

MaxCatalog == 2
MaxLimit == 2

SearchCatalogs == UNION {[1..n -> SearchCards] : n \in 1..MaxCatalog}

\* None, the empty string, whitespace, and two queries to be normalised
SearchQueries ==
    { <<>>, << <<>> >>, << <<" ">> >>,
      << <<" ", "A", "b", " ">> >>, << <<"a", "b", "c">> >> }

SearchLimits == { <<>> } \cup { <<n>> : n \in (-1)..MaxLimit }

\* The state after one instance has loaded a catalog (all-in-one answer)
\* and its call has returned True; one more call can be made.
SearchInit ==
    \E catalog \in SearchCatalogs :
       /\ _shared_all_cards_cache = 1
       /\ _shared_cards_cache = 1
       /\ _shared_search_index = 1
       /\ _shared_index_by_code = 1
       /\ _shared_loading = FALSE
       /\ _cache_lock = NoThread
       /\ heapAll = [g \in Gens |-> IF g = 1 THEN catalog ELSE <<>>]
       /\ heapCards = [g \in Gens |-> IF g = 1 THEN CardsByCode(catalog) ELSE EmptyDict]
       /\ heapIndex = [g \in Gens |-> IF g = 1 THEN _build_search_index(catalog) ELSE <<>>]
       /\ heapByCode = [g \in Gens |->
                           IF g = 1 THEN IndexByCode(_build_search_index(catalog))
                           ELSE EmptyDict]
       /\ nextGen = 2
       /\ _all_cards_cache = [i \in Instances |-> IF i = 1 THEN 1 ELSE NoneRef]
       /\ _cards_cache = [i \in Instances |-> IF i = 1 THEN 1 ELSE 0]
       /\ _search_index = [i \in Instances |-> IF i = 1 THEN 1 ELSE 0]
       /\ _index_by_code = [i \in Instances |-> IF i = 1 THEN 1 ELSE 0]
       /\ pc = [t \in Threads |-> "idle"]
       /\ self = [t \in Threads |-> 1]
       /\ cards = [t \in Threads |-> <<>>]
       /\ search_index = [t \in Threads |-> <<>>]
       /\ gen = [t \in Threads |-> 0]
       /\ site = [t \in Threads |-> "none"]
       /\ ep = [t \in Threads |-> 0]
       /\ success = [t \in Threads |-> FALSE]
       /\ exc = [t \in Threads |-> FALSE]
       /\ ret = [t \in Threads |-> "none"]
       /\ arg = [t \in Threads |-> <<>>]
       /\ result = [t \in Threads |-> IF t = 1 THEN "true" ELSE "none"]
       /\ op = [t \in Threads |-> "none"]
       /\ query = [t \in Threads |-> <<>>]
       /\ limit = [t \in Threads |-> <<>>]
       /\ include_encounter = [t \in Threads |-> TRUE]
       /\ combined = [t \in Threads |-> <<>>]
       /\ calls = MaxCalls - 1
       /\ instUsed = 1
       /\ owner = NoThread
       /\ loaderRuns = 1
       /\ transitions = 1
       /\ failedRuns = 0
       /\ concurrentStart = FALSE
       /\ fetched = {}
       /\ received = [t \in Threads |-> <<>>]
       /\ RateInit
       /\ TaskInit
       /\ _last_query = [d \in Threads |-> <<>>]
       /\ wire = [t \in Threads |-> <<>>]
       /\ WindowInit

SearchStep(t) ==
    \/ CallSearch(t, 1, MaxCalls, {"search", "suggest"}, SearchQueries, SearchLimits)
    \/ FastPath(t)
    \/ Sync1(t)
    \/ Sync2(t)
    \/ Sync3(t)
    \/ Sync4Return(t)
    \/ SearchReturn(t)

SearchNext == SearchStep(1)

SearchSpec == SearchInit /\ [][SearchNext]_vars

\* ------------------------------------------------------------ search claims
\* A call of search_cards (get_card_name_suggestions) by t has returned
Returned(t) == pc[t] = "idle" /\ result[t] = "returned"
Suggested(t) == pc[t] = "idle" /\ result[t] = "suggested"

\* The call had a limit L > 0
Capped(t) == limit[t] # <<>> /\ limit[t][1] > 0

\* The published catalog, in catalog order
Catalog == heapAll[_shared_all_cards_cache]

FirstN(s, n) == SubSeq(s, 1, IF n < Len(s) THEN n ELSE Len(s))

\* C15: for every catalog, query, encounter flag and limit L > 0 the result
\* of search_cards(query, L) is the first L elements of the result of
\* search_cards(query) without a limit.
C15_CapIsPrefixOfUncapped ==
    \A t \in Threads :
       (Returned(t) /\ Capped(t)) =>
          combined[t] = FirstN(search_cards(TRUE, heapIndex[_shared_search_index],
                                            query[t], <<>>, include_encounter[t]),
                               limit[t][1])

\* The tier of a card for a normalised query, as the claims list them:
\* exact (query equals name or code), prefix, subname, contains, traits,
\* text (queries of three characters or more); 0 when the card matches none
ClaimTier(card, q) ==
    LET name == Lower(GetStr(card, "name"))
        code == Lower(GetStr(card, "code"))
        subname == Lower(GetStr(card, "subname"))
        traits == Lower(GetStr(card, "traits"))
        text == Lower(GetStr(card, "text"))
    IN CASE q = name \/ q = code -> 1
         [] q # name /\ q # code
            /\ (StartsWith(name, q) \/ StartsWith(code, q)) -> 2
         [] ~StartsWith(name, q) /\ ~StartsWith(code, q)
            /\ StartsWith(subname, q) -> 3
         [] ~StartsWith(name, q) /\ ~StartsWith(code, q)
            /\ ~StartsWith(subname, q)
            /\ (Contains(name, q) \/ Contains(code, q) \/ Contains(subname, q)) -> 4
         [] ~Contains(name, q) /\ ~Contains(code, q) /\ ~Contains(subname, q)
            /\ Contains(traits, q) -> 5
         [] ~Contains(name, q) /\ ~Contains(code, q) /\ ~Contains(subname, q)
            /\ ~Contains(traits, q)
            /\ Len(q) >= 3 /\ Contains(text, q) -> 6
         [] OTHER -> 0

\* The card is left in by the encounter filter
KeptBy(card, incl) == incl \/ ~_is_encounter_card(card)

\* The positions of the catalog whose card matches a tier and is left in
MatchPositions(catalog, q, incl) ==
    {k \in 1..Len(catalog) :
        KeptBy(catalog[k], incl) /\ ClaimTier(catalog[k], q) # 0}

\* The position of the L-th match, or the end of the catalog when fewer
\* than L positions match
CutAt(catalog, q, incl, L) ==
    LET mp == MatchPositions(catalog, q, incl)
    IN IF Cardinality(mp) <= L
         THEN Len(catalog)
         ELSE CHOOSE k \in mp : Cardinality({j \in mp : j <= k}) = L

\* C15 as amended: with a limit L > 0 the result of search_cards is the
\* result of the search without a limit over the catalog cut after its
\* L-th matching entry (the first L matches in catalog order, arranged by
\* tier), so it is the first L elements of the result without a limit
\* over the whole catalog whenever at most L entries match.
C15_FirstMatchesByTier ==
    \A t \in Threads :
       (Returned(t) /\ Capped(t)) =>
          LET index == heapIndex[_shared_search_index]
              q == NormQuery(query[t])
              incl == include_encounter[t]
              L == limit[t][1]
              cut == CutAt(Catalog, q, incl, L)
          IN /\ combined[t] =
                   search_cards(TRUE, SubSeq(index, 1, cut), query[t], <<>>, incl)
             /\ Cardinality(MatchPositions(Catalog, q, incl)) <= L =>
                   combined[t] = FirstN(search_cards(TRUE, index, query[t], <<>>, incl), L)

\* a capped search returned a lower-tier card where the search without a
\* limit starts with a higher-tier one
C15_Witness ==
    \E t \in Threads :
       /\ Returned(t)
       /\ Capped(t)
       /\ limit[t][1] = 1
       /\ Len(combined[t]) = 1
       /\ LET all == search_cards(TRUE, heapIndex[_shared_search_index],
                                  query[t], <<>>, include_encounter[t])
          IN /\ Len(all) = 2
             /\ combined[t][1] = all[2]
             /\ ClaimTier(all[1], NormQuery(query[t]))
                   < ClaimTier(all[2], NormQuery(query[t]))

RECURSIVE IsSubseq(_, _)
IsSubseq(s, l) ==
    IF s = <<>> THEN TRUE
    ELSE IF l = <<>> THEN FALSE
    ELSE IF Head(s) = Head(l) THEN IsSubseq(Tail(s), Tail(l))
    ELSE IsSubseq(s, Tail(l))

\* The cards of a result that are in one tier, in the order of the result
InTier(r, q, tier) ==
    LET Test(card) == ClaimTier(card, q) = tier
    IN SelectSeq(r, Test)

\* The card matches the query through its text and through nothing else
TextOnly(card, q) ==
    /\ Contains(Lower(GetStr(card, "text")), q)
    /\ ~Contains(Lower(GetStr(card, "name")), q)
    /\ ~Contains(Lower(GetStr(card, "code")), q)
    /\ ~Contains(Lower(GetStr(card, "subname")), q)
    /\ ~Contains(Lower(GetStr(card, "traits")), q)

\* C16: in every result of search_cards each card is in a tier, the tiers
\* never decrease along the result, the cards of one tier are in catalog
\* order, a card whose name or code starts with the query comes before
\* every card that matches through its text only, and a card whose code is
\* the query comes before every card whose name and code are not the query.
C16_TierOrder ==
    \A t \in Threads :
       Returned(t) =>
          LET q == NormQuery(query[t])
              r == combined[t]
          IN /\ \A i \in 1..Len(r) : ClaimTier(r[i], q) \in 1..6
             /\ \A i, j \in 1..Len(r) :
                   i < j => ClaimTier(r[i], q) <= ClaimTier(r[j], q)
             /\ \A tier \in 1..6 : IsSubseq(InTier(r, q, tier), Catalog)
             /\ \A i, j \in 1..Len(r) :
                   (/\ \/ StartsWith(Lower(GetStr(r[i], "name")), q)
                       \/ StartsWith(Lower(GetStr(r[i], "code")), q)
                    /\ TextOnly(r[j], q)) => i < j
             /\ \A i, j \in 1..Len(r) :
                   (/\ Lower(GetStr(r[i], "code")) = q
                    /\ Lower(GetStr(r[j], "code")) # q
                    /\ Lower(GetStr(r[j], "name")) # q) => i < j

\* the catalog has a text-only match before a card whose name starts with
\* the query, and the result has them the other way round
C16_Witness ==
    \E t \in Threads :
       /\ Returned(t)
       /\ Len(Catalog) = 2
       /\ combined[t] = <<Catalog[2], Catalog[1]>>
       /\ TextOnly(Catalog[1], NormQuery(query[t]))
       /\ ClaimTier(Catalog[2], NormQuery(query[t])) = 2

\* C17: a call of search_cards with a limit L > 0 returns at most L cards,
\* and a call of get_card_name_suggestions with a limit L >= 0 returns at
\* most L cards, however many index entries match.
C17_AtMostLimit ==
    \A t \in Threads :
       /\ (Returned(t) /\ Capped(t)) => Len(combined[t]) <= limit[t][1]
       /\ (Suggested(t) /\ limit[t] # <<>> /\ limit[t][1] >= 0) =>
             Len(combined[t]) <= limit[t][1]

\* more entries match than the limit allows, and the result is full
C17_Witness ==
    \E t \in Threads :
       /\ Returned(t)
       /\ Capped(t)
       /\ Len(combined[t]) = limit[t][1]
       /\ Cardinality(MatchPositions(Catalog, NormQuery(query[t]),
                                     include_encounter[t])) > limit[t][1]

\* C18: with limit None, 0 or negative and a query that is not blank,
\* search_cards returns the card of every index entry that the encounter
\* filter leaves in and that matches a tier, as many times as the catalog
\* holds it, and no other card.
C18_NoCapReturnsAll ==
    \A t \in Threads :
       (Returned(t) /\ ~Capped(t) /\ NormQuery(query[t]) # <<>>) =>
          LET q == NormQuery(query[t])
              r == combined[t]
              mp == MatchPositions(Catalog, q, include_encounter[t])
          IN /\ Len(r) = Cardinality(mp)
             /\ \A k \in mp :
                   Cardinality({i \in 1..Len(r) : r[i] = Catalog[k]})
                      = Cardinality({j \in mp : Catalog[j] = Catalog[k]})

\* a search with limit 0 or -1 returned a whole catalog of two cards
C18_Witness ==
    \E t \in Threads :
       /\ Returned(t)
       /\ limit[t] # <<>>
       /\ limit[t][1] <= 0
       /\ Len(Catalog) = 2
       /\ Len(combined[t]) = 2

\* The query is None, empty or made of whitespace
Blank(q_arg) == q_arg = <<>> \/ \A k \in 1..Len(q_arg[1]) : q_arg[1][k] = " "

\* C19: search_cards and get_card_name_suggestions return the empty list
\* for every query that is None, empty or whitespace only, whatever the
\* limit, the encounter flag and the catalog.
C19_BlankQueryIsEmpty ==
    \A t \in Threads :
       ((Returned(t) \/ Suggested(t)) /\ Blank(query[t])) => combined[t] = <<>>

\* a whitespace query on a catalog with a card whose name holds a space
C19_Witness ==
    \E t \in Threads :
       /\ Returned(t)
       /\ query[t] = << <<" ">> >>
       /\ \E k \in 1..Len(Catalog) : Contains(GetStr(Catalog[k], "name"), <<" ">>)
       /\ combined[t] = <<>>

\* The cards of a list that are not encounter cards, in the order of the list
WithoutEncounter(r) ==
    LET Test(card) == ~_is_encounter_card(card)
    IN SelectSeq(r, Test)

\* C20: search_cards with include_encounter False returns no encounter
\* card, whatever the limit, and without a cap its result is the result
\* with include_encounter True with the encounter cards taken out.
C20_EncounterFilter ==
    \A t \in Threads :
       (Returned(t) /\ ~include_encounter[t]) =>
          /\ \A i \in 1..Len(combined[t]) : ~_is_encounter_card(combined[t][i])
          /\ ~Capped(t) =>
                combined[t] =
                   WithoutEncounter(search_cards(TRUE, heapIndex[_shared_search_index],
                                                 query[t], limit[t], TRUE))

\* an encounter card that matches was left out, another match was returned
C20_Witness ==
    \E t \in Threads :
       /\ Returned(t)
       /\ ~include_encounter[t]
       /\ ~Capped(t)
       /\ Len(combined[t]) = 1
       /\ \E k \in 1..Len(Catalog) :
             /\ _is_encounter_card(Catalog[k])
             /\ ClaimTier(Catalog[k], NormQuery(query[t])) # 0

\* ------------------------------------------------------- the loader's tiers
\* The requests of one loader run in order: the all-in-one request, then
\* the fallback tiers
NumTiers == NumEndpoints + 1

\* A response that brings cards: a 200 with a JSON list of card records
WellFormed(r) ==
    r.kind = "list" /\ \A k \in 1..Len(r.items) : IsCardRecord(r.items[k])
ReturnsCards(r) == WellFormed(r) /\ Len(r.items) >= 1

\* A request that returns zero cards or fails: transport error, non-200,
\* body that is no JSON, JSON that is no list, a list with an element that
\* is no card record, an empty list
ZeroOrFails(r) == ~ReturnsCards(r)

\* The thread's last call has returned or raised and went through the
\* fallback (all three requests were made)
AfterFallbackRun(t) == result[t] # "none" /\ Len(received[t]) = NumTiers

\* The all-cards list the class refers to
Published == heapAll[_shared_all_cards_cache]

\* C21: when a fallback tier returns N >= 1 cards and every other endpoint of
\* the run (the all-in-one request and the other fallback tier) returns zero
\* cards or fails, _ensure_cards_loaded returns True and the published
\* all-cards list is exactly that tier's list.
C21_LaterTierAlone ==
    \A t \in Threads : \A k \in 2..NumTiers :
       (/\ AfterFallbackRun(t)
        /\ ReturnsCards(received[t][k])
        /\ \A j \in (1..NumTiers) \ {k} : ZeroOrFails(received[t][j]))
       => /\ result[t] = "true"
          /\ Published = received[t][k].items

\* The merged catalog of two tiers' lists as the claim describes it
Codes(l) == { GetOpt(l[k], "code") : k \in 1..Len(l) }
ClaimMerged(first, later) ==
    IF first = <<>> THEN later
    ELSE LET New(c) == GetOpt(c, "code") \notin Codes(first)
         IN  first \o SelectSeq(later, New)
Records(l) == { l[k] : k \in 1..Len(l) }
FirstContributing(first, later) == IF first = <<>> THEN later ELSE first

\* C22: when both fallback tiers return a list of card records, the
\* published catalog is the first contributing tier's cards in arrival
\* order followed by the later tier's cards whose code the first did not
\* have, and every published record (in the list and in the code-to-card
\* map) of a code that the first contributing tier reported is a record of
\* that tier.
C22_MergedCatalog ==
    \A t \in Threads :
       (/\ AfterFallbackRun(t)
        /\ WellFormed(received[t][2])
        /\ WellFormed(received[t][3]))
       => LET first == received[t][2].items
              later == received[t][3].items
              merged == ClaimMerged(first, later)
              lead == FirstContributing(first, later)
          IN  IF merged = <<>>
                THEN result[t] = "false"
                ELSE /\ result[t] = "true"
                     /\ Published = merged
                     /\ \A k \in 1..Len(Published) :
                           GetOpt(Published[k], "code") \in Codes(lead)
                           => Published[k] \in Records(lead)
                     /\ \A c \in DOMAIN heapCards[_shared_cards_cache] :
                           c \in Codes(lead)
                           => heapCards[_shared_cards_cache][c] \in Records(lead)

\* A run where the later tier brings a new record of a known code and a
\* card of a new code
C22_Witness ==
    /\ AfterFallbackRun(1)
    /\ result[1] = "true"
    /\ received[1][2].items = <<CardA>>
    /\ received[1][3].items = <<CardA2, CardB>>
    /\ Published = <<CardA, CardB>>

\* C23: when the all-in-one request returns a non-error status and a
\* non-empty list of card records, no fallback request is made in that run,
\* the call does not return False or raise, and once it has returned the
\* published all-cards list is that list.
C23_AllInOneAccepted ==
    \A t \in Threads :
       (received[t] # <<>> /\ ReturnsCards(received[t][1]))
       => /\ Len(received[t]) = 1
          /\ result[t] \in {"none", "true"}
          /\ result[t] = "true" => Published = received[t][1].items

C23_Witness ==
    /\ pc[1] = "idle"
    /\ result[1] = "true"
    /\ received[1] = << [kind |-> "list", items |-> <<CardA, CardB>>] >>
    /\ Published = <<CardA, CardB>>

\* C24: no response of a catalog endpoint makes _ensure_cards_loaded raise.
C24_NeverRaises == \A t \in Threads : result[t] # "raised"

\* ------------------------------------------------------- get_card's outcome
\* C25: every request of get_card either fails, and then leaves every
\* per-card dict as it was, goes on to the next variant, and after the last
\* variant the call returns None; or succeeds, and then the call ends at
\* once (no later variant is requested) with the card stored under the
\* requested code in the dict the instance refers to.  The call never ends
\* by raising.
C25_GetCardOutcome ==
    [][\A t \in Threads :
          pc[t] = "gc_get" /\ <<pc[t], ep[t], result[t], heapCards>>' # <<pc[t], ep[t], result[t], heapCards>>
          => LET d == _cards_cache[self[t]]
             IN  \/ /\ heapCards' = heapCards
                    /\ ep[t] < NumCardEndpoints
                    /\ pc'[t] = "gc_get"
                    /\ ep'[t] = ep[t] + 1
                    /\ result'[t] = "none"
                 \/ /\ heapCards' = heapCards
                    /\ ep[t] = NumCardEndpoints
                    /\ pc'[t] = "idle"
                    /\ result'[t] = "absent"
                 \/ /\ heapCards' = [heapCards EXCEPT ![d] = Put(@, arg[t], RemoteCard(arg[t]))]
                    /\ pc'[t] = "idle"
                    /\ result'[t] = "fetched"]_vars

\* A first call that tried every variant in vain
C25_Witness ==
    /\ pc[1] = "idle"
    /\ result[1] = "absent"
    /\ \A g \in Gens : heapCards[g] = EmptyDict
    /\ calls = 1

\* ------------------------------------------------------------- _rate_limit
\* The rate limiter by itself: threads call _rate_limit on the instances
\* while the clock advances.
MaxTime == 5
MaxRateCalls == 3

\* a caller (get_card line 52, _load_all_cards lines 96, 117, 126) enters
\* _rate_limit on instance i
RateCall(t, max) ==
    /\ pc[t] = "idle"
    /\ calls < max
    /\ \E i \in Instances : self' = [self EXCEPT ![t] = i]
    /\ calls' = calls + 1
    /\ pc' = [pc EXCEPT ![t] = "rl_now"]
    /\ UNCHANGED <<sharedVars, _shared_loading, _cache_lock, heapVars, instVars,
                   cards, search_index, gen, site, ep, success, exc, ret, arg,
                   searchVars, result, instUsed, owner, loaderRuns, transitions,
                   failedRuns, concurrentStart, fetched, received, rateVars,
                   taskVars,
                   _last_query, wire, undoVars>>

\* line 33: now = time.time()
RateNow(t) ==
    /\ pc[t] = "rl_now"
    /\ now' = [now EXCEPT ![t] = clock]
    /\ pc' = [pc EXCEPT ![t] = "rl_check"]
    /\ UNCHANGED <<sharedVars, _shared_loading, _cache_lock, heapVars, instVars,
                   localVars, result, histVars, received,
                   clock, _last_request_time, wake, lastReturn, taskVars,
                   _last_query, wire, undoVars>>

\* lines 34-36: the time since this instance's last request, and the sleep
\* for the rest of the interval when it is too short
RateCheck(t) ==
    /\ pc[t] = "rl_check"
    /\ LET time_since_last == now[t] - _last_request_time[self[t]]
       IN  IF time_since_last < _min_request_interval
             THEN /\ wake' = [wake EXCEPT ![t] =
                                 clock + (_min_request_interval - time_since_last)]
                  /\ pc' = [pc EXCEPT ![t] = "rl_sleep"]
             ELSE /\ pc' = [pc EXCEPT ![t] = "rl_set"]
                  /\ UNCHANGED wake
    /\ UNCHANGED <<sharedVars, _shared_loading, _cache_lock, heapVars, instVars,
                   localVars, result, histVars, received,
                   clock, _last_request_time, now, lastReturn, taskVars,
                   _last_query, wire, undoVars>>

\* line 36: time.sleep returns once the time asked for has passed
RateSleep(t) ==
    /\ pc[t] = "rl_sleep"
    /\ clock >= wake[t]
    /\ pc' = [pc EXCEPT ![t] = "rl_set"]
    /\ UNCHANGED <<sharedVars, _shared_loading, _cache_lock, heapVars, instVars,
                   localVars, result, histVars, received, rateVars, taskVars,
                   _last_query, wire, undoVars>>

\* line 37: self._last_request_time = time.time(), and the return
RateSet(t) ==
    /\ pc[t] = "rl_set"
    /\ _last_request_time' = [_last_request_time EXCEPT ![self[t]] = clock]
    /\ lastReturn' = clock
    /\ pc' = [pc EXCEPT ![t] = "idle"]
    /\ UNCHANGED <<sharedVars, _shared_loading, _cache_lock, heapVars, instVars,
                   localVars, result, histVars, received,
                   clock, now, wake, taskVars,
                   _last_query, wire, undoVars>>

\* time passes
Tick(max) ==
    /\ clock < max
    /\ clock' = clock + 1
    /\ UNCHANGED <<sharedVars, _shared_loading, _cache_lock, heapVars, instVars,
                   pc, localVars, result, histVars, received,
                   _last_request_time, now, wake, lastReturn, taskVars,
                   _last_query, wire, undoVars>>

RateStep(t) ==
    \/ RateCall(t, MaxRateCalls)
    \/ RateNow(t)
    \/ RateCheck(t)
    \/ RateSleep(t)
    \/ RateSet(t)

RateNext == Tick(MaxTime) \/ \E t \in Threads : RateStep(t)

RateSpec == Init /\ [][RateNext]_vars

\* C26: a call of _rate_limit returns no earlier than the minimum interval
\* after the previous return of a call of _rate_limit, whatever the
\* instances and threads of the two calls.
C26_GlobalSpacing ==
    [][\A t \in Threads :
          (pc[t] = "rl_set" /\ pc'[t] = "idle" /\ lastReturn >= 0)
          => clock - lastReturn >= _min_request_interval]_vars

\* ------------------------------------------- CardLoaderThread and its dialog
\* Dialog t owns instance t of ArkhamDBAPI (card_search_dialog.py line 42)
\* and thread t is its CardLoaderThread.  for _ in range(5), line 25:
MaxAttempts == 5

\* _start_loading_cards (lines 237-248) and the entry of run (line 23)
StartLoading(t) ==
    /\ pc[t] = "idle"
    /\ loader_thread[t] = "pending"
    /\ ~cards_loaded[t]
    /\ loader_thread' = [loader_thread EXCEPT ![t] = "running"]
    /\ results_info' = [results_info EXCEPT ![t] = "loading"]
    /\ attempts' = [attempts EXCEPT ![t] = 0]
    /\ run_success' = [run_success EXCEPT ![t] = FALSE]
    /\ op' = [op EXCEPT ![t] = "run"]
    /\ self' = [self EXCEPT ![t] = t]
    /\ pc' = [pc EXCEPT ![t] = "run_loop"]
    /\ UNCHANGED <<sharedVars, _shared_loading, _cache_lock, heapVars, instVars,
                   cards, search_index, gen, site, ep, success, exc, ret, arg,
                   query, limit, include_encounter, combined, result,
                   histVars, received, rateVars, finished, cards_loaded,
                   _last_query, wire, undoVars>>

\* lines 25-26: one more iteration calls self.api._ensure_cards_loaded()
RunCall(t) ==
    /\ pc[t] = "run_loop"
    /\ attempts[t] < MaxAttempts
    /\ attempts' = [attempts EXCEPT ![t] = @ + 1]
    /\ result' = [result EXCEPT ![t] = "none"]
    /\ pc' = [pc EXCEPT ![t] = "fast"]
    /\ UNCHANGED <<sharedVars, _shared_loading, _cache_lock, heapVars, instVars,
                   localVars, histVars, received, rateVars,
                   run_success, finished, loader_thread, cards_loaded, results_info,
                   _last_query, wire, undoVars>>

\* line 25: the range is exhausted, the loop ends with success False
RunExhausted(t) ==
    /\ pc[t] = "run_loop"
    /\ attempts[t] = MaxAttempts
    /\ pc' = [pc EXCEPT ![t] = "run_emit"]
    /\ UNCHANGED <<sharedVars, _shared_loading, _cache_lock, heapVars, instVars,
                   localVars, result, histVars, received, rateVars, taskVars,
                   _last_query, wire, undoVars>>

\* lines 26-30: the call returned True (break), returned False (sleep), or
\* raised: run has no handler, the exception ends the thread's run
RunReturned(t) ==
    /\ pc[t] = "run_ret"
    /\ run_success' = [run_success EXCEPT ![t] = (result[t] = "true")]
    /\ pc' = [pc EXCEPT ![t] =
                 CASE result[t] = "true" -> "run_emit"
                   [] result[t] = "raised" -> "run_raised"
                   [] OTHER -> "run_sleep"]
    /\ UNCHANGED <<sharedVars, _shared_loading, _cache_lock, heapVars, instVars,
                   localVars, result, histVars, received, rateVars,
                   attempts, finished, loader_thread, cards_loaded, results_info,
                   _last_query, wire, undoVars>>

\* lines 30-33: after the sleep, the instance's all-cards reference is read
RunWake(t) ==
    /\ pc[t] = "run_sleep"
    /\ IF _all_cards_cache[self[t]] # NoneRef
         THEN /\ run_success' = [run_success EXCEPT ![t] = TRUE]
              /\ pc' = [pc EXCEPT ![t] = "run_emit"]
         ELSE /\ pc' = [pc EXCEPT ![t] = "run_loop"]
              /\ UNCHANGED run_success
    /\ UNCHANGED <<sharedVars, _shared_loading, _cache_lock, heapVars, instVars,
                   localVars, result, histVars, received, rateVars,
                   attempts, finished, loader_thread, cards_loaded, results_info,
                   _last_query, wire, undoVars>>

\* line 34: self.finished.emit(success); run returns
RunEmit(t) ==
    /\ pc[t] = "run_emit"
    /\ finished' = [finished EXCEPT ![t] = Append(@, run_success[t])]
    /\ op' = [op EXCEPT ![t] = "none"]
    /\ pc' = [pc EXCEPT ![t] = "run_end"]
    /\ UNCHANGED <<sharedVars, _shared_loading, _cache_lock, heapVars, instVars,
                   self, cards, search_index, gen, site, ep, success, exc, ret, arg,
                   query, limit, include_encounter, combined, result,
                   histVars, received, rateVars,
                   attempts, run_success, loader_thread, cards_loaded, results_info,
                   _last_query, wire, undoVars>>

\* _on_cards_loaded, lines 250-262, run by the interface thread when the
\* signal is delivered; the search of lines 259-260 is not made (the load
\* failed, or fewer than two characters have been typed)
OnCardsLoaded(t) ==
    /\ loader_thread[t] = "running"
    /\ finished[t] # <<>>
    /\ LET ok == finished[t][1] \/ _all_cards_cache[t] # NoneRef
       IN  /\ ~(ok /\ Len(_last_query[t]) >= 2)
           /\ cards_loaded' = [cards_loaded EXCEPT ![t] = ok]
           /\ results_info' = [results_info EXCEPT ![t] =
                                  IF ok THEN "ready" ELSE "failed"]
    /\ loader_thread' = [loader_thread EXCEPT ![t] = "none"]
    /\ UNCHANGED <<sharedVars, _shared_loading, _cache_lock, heapVars, instVars,
                   pc, localVars, result, histVars, received, rateVars,
                   attempts, run_success, finished,
                   _last_query, wire, undoVars>>

TaskStep(t) ==
    \/ StartLoading(t)
    \/ RunCall(t)
    \/ RunExhausted(t)
    \/ RunReturned(t)
    \/ RunWake(t)
    \/ RunEmit(t)
    \/ OnCardsLoaded(t)
    \/ EnsureProceed(t)

TaskNext == \E t \in Threads : TaskStep(t)

\* Two dialogs opened on an Empty cache, each with its loader thread
TaskSpec == Init /\ [][TaskNext]_vars

\* The run of a loader thread is over
RunOver(t) == pc[t] \in {"run_end", "run_raised"}

\* C27: a run of the loader thread makes at most 5 calls of
\* _ensure_cards_loaded, never emits finished more than once, has emitted it
\* exactly once when it is over, and emits True when a call returned True.
C27_RunEmitsOnce ==
    \A t \in Threads :
       /\ attempts[t] <= MaxAttempts
       /\ Len(finished[t]) <= 1
       /\ RunOver(t) => Len(finished[t]) = 1
       /\ (pc[t] = "run_emit" /\ result[t] = "true") => run_success[t]

\* C28: finished(False) is emitted, and the dialog shows the load failure,
\* only when the shared all-cards list is still None at that moment.
C28_FailureOnlyIfEmpty ==
    [][\A t \in Threads :
          /\ (pc[t] = "run_emit" /\ pc'[t] = "run_end" /\ ~run_success[t])
             => _shared_all_cards_cache = NoneRef
          /\ (results_info[t] # "failed" /\ results_info'[t] = "failed")
             => _shared_all_cards_cache = NoneRef]_vars

\* ------------------------------------------------------- the lock's discipline
\* Threads that interleave the operations that reach the lock:
\* _ensure_cards_loaded with its publish step, and search_cards, which
\* calls it at line 198 (get_card, lines 39-67, has no with statement and
\* waits for nothing).  As in FairSpec the calls are made on one instance.
LockQueries == { << <<"X">> >> }

LockStep(t) ==
    \/ CallEnsure(t, 1, MaxCalls)
    \/ CallSearch(t, 1, MaxCalls, {"search"}, LockQueries, {<<>>})
    \/ EnsureProceed(t)
    \/ SearchReturn(t)

LockNext == \E t \in Threads : LockStep(t)

LockSpec == Init /\ [][LockNext]_vars

\* Positions right before a with ArkhamDBAPI._cache_lock (lines 76, 91, 160)
LockRequestPcs == {"acquire", "finally", "publish"}

\* Positions inside a with block: the synchronisation of lines 77-79 and
\* the assignments of lines 162-170
HoldingPcs == SyncPcs \cup {"pub2", "pub3", "pub4"}

\* A thread inside a call is waiting for the lock
Blocked(t) == pc[t] \in LockRequestPcs /\ _cache_lock # NoThread

\* C29: a thread about to request the lock does not hold it; the holder is
\* inside the with block of the operation that took the lock, where its
\* next step is possible, so the lock is released before the operation
\* returns; and whenever some thread is inside a call, one of them is not
\* waiting for the lock.
C29_NoDeadlock ==
    /\ \A t \in Threads : pc[t] \in LockRequestPcs => _cache_lock # t
    /\ \A t \in Threads : _cache_lock = t => pc[t] \in HoldingPcs
    /\ \A t \in Threads : pc[t] \in {"idle", "search"} => _cache_lock # t
    /\ \A t \in Threads : _cache_lock = t => ENABLED EnsureProceed(t)
    /\ (\E t \in Threads : pc[t] # "idle")
       => \E t \in Threads : pc[t] # "idle" /\ ~Blocked(t)

\* A search_cards call waits for the lock while the publisher holds it
C29_Witness ==
    /\ pc[1] = "acquire"
    /\ op[1] = "search"
    /\ _cache_lock = 2
    /\ pc[2] = "pub3"

\* The four shared references are of one generation
SharedOfOneGen ==
    /\ _shared_cards_cache = _shared_all_cards_cache
    /\ _shared_search_index = _shared_all_cards_cache
    /\ _shared_index_by_code = _shared_all_cards_cache

\* C30: the index is built before the lock is taken and is complete when
\* the assignments start; the assignments after the first are made with the
\* lock held since the first; and the four shared views are of one
\* generation (none or all updated) whenever the lock is free or held by a
\* thread that reads them (lines 77-79).
C30_PublishIsAtomicUnderLock ==
    /\ \A t \in Threads : pc[t] = "build" => _cache_lock # t
    /\ \A t \in Threads :
          pc[t] \in {"publish", "pub2", "pub3", "pub4"}
          => search_index[t] = _build_search_index(cards[t])
    /\ \A t \in Threads : pc[t] \in {"pub2", "pub3", "pub4"} => _cache_lock = t
    /\ (\A t \in Threads : pc[t] \notin {"pub2", "pub3", "pub4"}) => SharedOfOneGen
    /\ \A t \in Threads : (_cache_lock = t /\ pc[t] \in SyncPcs) => SharedOfOneGen

\* A thread reads the shared views with the lock held, after another
\* thread's publication
C30_Witness ==
    /\ _cache_lock = 1
    /\ pc[1] = "sync3"
    /\ ret[1] = "return_true"
    /\ owner = 2
    /\ _shared_index_by_code = 1

\* ------------------------------------------------- buckets, early stop, text
\* The card matches the query by the contains criterion (name, code or
\* subname holds the query) and by the traits criterion
ContainsAndTraits(card, q) ==
    /\ \/ Contains(Lower(GetStr(card, "name")), q)
       \/ Contains(Lower(GetStr(card, "code")), q)
       \/ Contains(Lower(GetStr(card, "subname")), q)
    /\ Contains(Lower(GetStr(card, "traits")), q)

\* The card matches the query through its traits and not by the contains
\* criterion
TraitsOnly(card, q) == ClaimTier(card, q) = 5

\* Each index entry is returned at most once: the result has no more cards
\* than the index has matching entries, and each card of the result no more
\* often than the catalog holds it
EachEntryOnce(r, catalog, q, incl) ==
    /\ Len(r) <= Cardinality(MatchPositions(catalog, q, incl))
    /\ \A i \in 1..Len(r) :
          Cardinality({j \in 1..Len(r) : r[j] = r[i]})
             <= Cardinality({k \in 1..Len(catalog) : catalog[k] = r[i]})

\* C31: in every result of search_cards each index entry is in at most one
\* bucket, the first tier of the chain that it matches: no card appears
\* twice in the result, and a card that matches both the contains and the
\* traits criteria is returned as a contains match, before every card that
\* matches through its traits only.
C31_OneBucketPerCard ==
    \A t \in Threads :
       Returned(t) =>
          LET q == NormQuery(query[t])
              r == combined[t]
          IN /\ EachEntryOnce(r, Catalog, q, include_encounter[t])
             /\ \A i, j \in 1..Len(r) : i < j => r[i] # r[j]
             /\ \A i, j \in 1..Len(r) :
                   (ContainsAndTraits(r[i], q) /\ TraitsOnly(r[j], q)) => i < j

\* C31 for the index entries alone: each entry is returned at most once and
\* a contains-and-traits match stands before the traits-only matches
C31_OneBucketPerEntry ==
    \A t \in Threads :
       Returned(t) =>
          LET q == NormQuery(query[t])
              r == combined[t]
          IN /\ EachEntryOnce(r, Catalog, q, include_encounter[t])
             /\ \A i, j \in 1..Len(r) :
                   (ContainsAndTraits(r[i], q) /\ TraitsOnly(r[j], q)) => i < j

\* C32: with a limit L > 0 the scan of search_cards stops at the entry that
\* brings the running total to L: every returned card is one of the matches
\* up to that entry, all of them are returned, and whatever entry follows
\* in the index has no effect on the result (a blank query starts no scan).
C32_ScanStopsAtLimit ==
    \A t \in Threads :
       (Returned(t) /\ Capped(t) /\ NormQuery(query[t]) # <<>>) =>
          LET q == NormQuery(query[t])
              incl == include_encounter[t]
              L == limit[t][1]
              r == combined[t]
              cut == CutAt(Catalog, q, incl, L)
              upTo == {k \in MatchPositions(Catalog, q, incl) : k <= cut}
          IN /\ Len(r) = Cardinality(upTo)
             /\ \A i \in 1..Len(r) : \E k \in upTo : Catalog[k] = r[i]
             /\ Cardinality(MatchPositions(Catalog, q, incl)) >= L =>
                   \A x \in SearchCards :
                      r = search_cards(TRUE,
                             _build_search_index(Append(SubSeq(Catalog, 1, cut), x)),
                             query[t], limit[t], incl)

\* the limit is reached before the end of the catalog, and the last entry,
\* a match, is not returned
C32_Witness ==
    \E t \in Threads :
       /\ Returned(t)
       /\ Capped(t)
       /\ NormQuery(query[t]) # <<>>
       /\ Len(combined[t]) = limit[t][1]
       /\ LET q == NormQuery(query[t])
              incl == include_encounter[t]
          IN /\ CutAt(Catalog, q, incl, limit[t][1]) < Len(Catalog)
             /\ Len(Catalog) \in MatchPositions(Catalog, q, incl)
             /\ \A i \in 1..Len(combined[t]) : combined[t][i] # Catalog[Len(Catalog)]

\* The number of matches that the scan has counted when it comes to entry k
MatchesBefore(catalog, k, q, incl) ==
    Cardinality({j \in MatchPositions(catalog, q, incl) : j < k})

\* The limit in force for a call: L when L > 0, the length of the index
\* otherwise
LimitInForce(t) == IF Capped(t) THEN limit[t][1] ELSE Len(Catalog)

\* C33: a query of fewer than three characters after trimming never returns
\* a card that matches through its text only; with three characters or
\* more such a card is returned whenever the limit has not been reached
\* when it is scanned, and then only text matches follow it in the result.
C33_TextTierFromThreeChars ==
    \A t \in Threads :
       Returned(t) =>
          LET q == NormQuery(query[t])
              incl == include_encounter[t]
              r == combined[t]
          IN /\ (q # <<>> /\ Len(q) < 3) =>
                   \A i \in 1..Len(r) : ~TextOnly(r[i], q)
             /\ Len(q) >= 3 =>
                   \A k \in 1..Len(Catalog) :
                      (/\ TextOnly(Catalog[k], q)
                       /\ KeptBy(Catalog[k], incl)
                       /\ MatchesBefore(Catalog, k, q, incl) < LimitInForce(t)) =>
                         \E i \in 1..Len(r) :
                            /\ r[i] = Catalog[k]
                            /\ \A j \in i..Len(r) : TextOnly(r[j], q)

\* a query of three characters returned a text-only match after a card of
\* a higher tier that stands later in the catalog
C33_Witness ==
    \E t \in Threads :
       /\ Returned(t)
       /\ Len(NormQuery(query[t])) = 3
       /\ Len(Catalog) = 2
       /\ TextOnly(Catalog[1], NormQuery(query[t]))
       /\ ClaimTier(Catalog[2], NormQuery(query[t])) \in 1..5
       /\ combined[t] = <<Catalog[2], Catalog[1]>>

\* a query of four characters that trimming leaves with two was run over a
\* catalog with a card that holds it in its text only
C33_ShortQueryWitness ==
    \E t \in Threads :
       /\ Returned(t)
       /\ query[t] # <<>>
       /\ Len(query[t][1]) >= 3
       /\ Len(NormQuery(query[t])) = 2
       /\ \E k \in 1..Len(Catalog) : TextOnly(Catalog[k], NormQuery(query[t]))

\* ------------------------------------------------------------ UndoManager
\* UndoAction (undo_manager.py lines 7-12); the timestamp is not read by
\* push, undo or redo
UndoAction(description, old_state, new_state) ==
    [description |-> description, old_state |-> old_state,
     new_state |-> new_state]

\* A push that keeps every action, whatever max_history is
push_NoTrim(description, old_state, new_state) ==
    /\ undo_stack' = Append(undo_stack,
                            UndoAction(description, old_state, new_state))
    /\ redo_stack' = <<>>

\* A push that leaves the redo stack as it is
push_KeepsRedo(description, old_state, new_state) ==
    LET pushed == Append(undo_stack,
                         UndoAction(description, old_state, new_state))
    IN /\ undo_stack' = IF Len(pushed) > max_history THEN Tail(pushed) ELSE pushed
       /\ redo_stack' = redo_stack

\* UndoManager.push, lines 21-37: append, clear the redo stack, drop the
\* oldest action when the stack is longer than max_history (the backup of
\* line 37 writes a file and catches every exception, lines 63-75)
push(description, old_state, new_state) ==
    LET pushed == Append(undo_stack,
                         UndoAction(description, old_state, new_state))
    IN /\ undo_stack' = IF Len(pushed) > max_history THEN Tail(pushed) ELSE pushed
       /\ redo_stack' = <<>>

\* An undo that returns the new state of the action it moves
undo_ReturnsNew ==
    IF undo_stack = <<>>
      THEN /\ undo_ret' = None
           /\ UNCHANGED <<undo_stack, redo_stack>>
      ELSE LET action == undo_stack[Len(undo_stack)]
           IN /\ undo_stack' = SubSeq(undo_stack, 1, Len(undo_stack) - 1)
              /\ redo_stack' = Append(redo_stack, action)
              /\ undo_ret' = <<action.new_state>>

\* UndoManager.undo, lines 39-46
undo ==
    IF undo_stack = <<>>
      THEN /\ undo_ret' = None
           /\ UNCHANGED <<undo_stack, redo_stack>>
      ELSE LET action == undo_stack[Len(undo_stack)]
           IN /\ undo_stack' = SubSeq(undo_stack, 1, Len(undo_stack) - 1)
              /\ redo_stack' = Append(redo_stack, action)
              /\ undo_ret' = <<action.old_state>>

\* UndoManager.redo, lines 48-55
redo ==
    IF redo_stack = <<>>
      THEN /\ undo_ret' = None
           /\ UNCHANGED <<undo_stack, redo_stack>>
      ELSE LET action == redo_stack[Len(redo_stack)]
           IN /\ redo_stack' = SubSeq(redo_stack, 1, Len(redo_stack) - 1)
              /\ undo_stack' = Append(undo_stack, action)
              /\ undo_ret' = <<action.new_state>>

\* lines 57-61
can_undo == undo_stack # <<>>
can_redo == redo_stack # <<>>

\* The last two elements of a sequence
Last2(s) == IF Len(s) <= 2 THEN s ELSE SubSeq(s, Len(s) - 1, Len(s))

\* One more operation is recorded: its name, tile_names and the stacks as
\* they are before it, and the actions it pushed (none or one)
Recorded(name, pushed) ==
    /\ edits' = edits + 1
    /\ last_ops' = Last2(Append(last_ops, name))
    /\ names_before' = Last2(Append(names_before, tile_names))
    /\ stacks_before' = Last2(Append(stacks_before, <<undo_stack, redo_stack>>))
    /\ last_pushed' = pushed

\* What no operation of the manager or the window touches
ApiVars == <<sharedVars, _shared_loading, _cache_lock, heapVars, instVars,
             pc, localVars, result, histVars, received, rateVars, taskVars,
             _last_query, wire>>

\* The largest max_history a manager is made with, the operations made on
\* one manager or window, and the states handed to push
MaxHistory == 2
MaxEdits == 4
Tiles == {"r1c1", "r1c2"}

\* {tile: name}
OneName(tile, name) == [x \in {tile} |-> name]

PushStates == { NoNames, OneName("r1c1", <<"a">>) }

\* UndoManager(max_history = n), lines 15-19
NewManager(n) ==
    /\ undo_stack' = <<>>
    /\ redo_stack' = <<>>
    /\ max_history' = n
    /\ edits' = 0
    /\ last_ops' = <<"init">>
    /\ names_before' = <<tile_names>>
    /\ stacks_before' = << <<undo_stack, redo_stack>> >>
    /\ last_pushed' = <<>>
    /\ UNCHANGED <<ApiVars, undo_ret, tile_names>>

\* A call of push with states of the caller's choice
ManagerPush(old_state, new_state) ==
    /\ edits < MaxEdits
    /\ push("edit", old_state, new_state)
    /\ Recorded("push", << UndoAction("edit", old_state, new_state) >>)
    /\ UNCHANGED <<ApiVars, max_history, undo_ret, tile_names>>

ManagerUndo ==
    /\ edits < MaxEdits
    /\ undo
    /\ Recorded("undo", <<>>)
    /\ UNCHANGED <<ApiVars, max_history, tile_names>>

ManagerRedo ==
    /\ edits < MaxEdits
    /\ redo
    /\ Recorded("redo", <<>>)
    /\ UNCHANGED <<ApiVars, max_history, tile_names>>

ManagerNext ==
    \/ \E n \in 1..MaxHistory : NewManager(n)
    \/ \E o, n \in PushStates : ManagerPush(o, n)
    \/ ManagerUndo
    \/ ManagerRedo

\* One UndoManager at a time, made with a small max_history, and any
\* sequence of push, undo and redo on it
ManagerSpec == Init /\ [][ManagerNext]_vars

\* The name of the last operation, and of the one before it
LastOp == IF last_ops = <<>> THEN "none" ELSE last_ops[Len(last_ops)]
LastTwoOps(first, second) == Len(last_ops) = 2 /\ last_ops = <<first, second>>

\* The stacks before the last operation and before the one before it
StacksBeforeLast == stacks_before[Len(stacks_before)]
StacksBeforeLastTwo == stacks_before[1]

Top(stack) == stack[Len(stack)]
Front(stack) == SubSeq(stack, 1, Len(stack) - 1)

\* C38: after any sequence of push, undo and redo on an UndoManager the undo
\* stack holds at most max_history actions, the two stacks together hold at
\* most max_history, and a push on a full undo stack discards its oldest
\* action and no other.
C38_HistoryBounded ==
    /\ Len(undo_stack) <= max_history
    /\ Len(undo_stack) + Len(redo_stack) <= max_history
    /\ (LastOp = "push" /\ Len(StacksBeforeLast[1]) = max_history) =>
          /\ Len(undo_stack) = max_history
          /\ Front(undo_stack) = Tail(StacksBeforeLast[1])

\* a push on a full undo stack of two actions
C38_Witness ==
    /\ LastOp = "push"
    /\ max_history = 2
    /\ Len(StacksBeforeLast[1]) = max_history
    /\ StacksBeforeLast[1][1] # StacksBeforeLast[1][2]

\* C39: after every push the redo stack is empty and the pushed action is
\* the top of the undo stack, so the redo stack is non-empty only when the
\* last operation was an undo or a redo, with no push after it.
C39_PushClearsRedo ==
    /\ LastOp = "push" =>
          /\ redo_stack = <<>>
          /\ ~can_redo
          /\ can_undo
          /\ Top(undo_stack) = last_pushed[1]
    /\ can_redo => LastOp \in {"undo", "redo"}

\* a push made after an undo, on a redo stack that held an action
C39_Witness ==
    /\ LastTwoOps("undo", "push")
    /\ StacksBeforeLast[2] # <<>>

\* C40: undo moves the top action of the undo stack to the redo stack and
\* returns its old state, redo moves the top of the redo stack back and
\* returns its new state, so an undo followed by a redo, or a redo followed
\* by an undo, leaves both stacks as they were; on an empty stack undo and
\* redo return None and change nothing.
C40_UndoRedoInverse ==
    /\ LastOp = "undo" =>
          LET before == StacksBeforeLast
          IN IF before[1] = <<>>
               THEN undo_ret = None /\ <<undo_stack, redo_stack>> = before
               ELSE /\ undo_stack = Front(before[1])
                    /\ redo_stack = Append(before[2], Top(before[1]))
                    /\ undo_ret = << Top(before[1]).old_state >>
    /\ LastOp = "redo" =>
          LET before == StacksBeforeLast
          IN IF before[2] = <<>>
               THEN undo_ret = None /\ <<undo_stack, redo_stack>> = before
               ELSE /\ redo_stack = Front(before[2])
                    /\ undo_stack = Append(before[1], Top(before[2]))
                    /\ undo_ret = << Top(before[2]).new_state >>
    /\ (LastTwoOps("undo", "redo") /\ StacksBeforeLastTwo[1] # <<>>) =>
          <<undo_stack, redo_stack>> = StacksBeforeLastTwo
    /\ (LastTwoOps("redo", "undo") /\ StacksBeforeLastTwo[2] # <<>>) =>
          <<undo_stack, redo_stack>> = StacksBeforeLastTwo

\* an undo and then a redo of an action whose two states differ
C40_Witness ==
    /\ LastTwoOps("undo", "redo")
    /\ StacksBeforeLastTwo[1] # <<>>
    /\ undo_ret = << Top(undo_stack).new_state >>
    /\ Top(undo_stack).new_state # Top(undo_stack).old_state

\* an undo and a redo on empty stacks
C40_EmptyWitness ==
    /\ LastOp \in {"undo", "redo"}
    /\ StacksBeforeLast = << <<>>, <<>> >>
    /\ undo_ret = None

\* ------------------------------------------------- ImageSplitter.tile_names
\* The text typed into the name editor, and the names a CSV file or a
\* template holds
NameTexts == { <<>>, <<"a">>, <<" ", "b">> }
ImportedNames == { NoNames, OneName("r1c1", <<"b">>),
                   [x \in Tiles |-> IF x = "r1c1" THEN <<"a">> ELSE <<"c">>] }

\* d with the entry d[tile] = name (lines 947)
WithName(d, tile, name) ==
    [x \in DOMAIN d \cup {tile} |-> IF x = tile THEN name ELSE d[x]]

\* d after del d[tile] (line 955)
WithoutName(d, tile) == [x \in DOMAIN d \ {tile} |-> d[x]]

\* d.values()
Values(d) == { d[x] : x \in DOMAIN d }

\* What no operation on the names touches
WindowFrame == <<ApiVars, max_history>>

\* front_image_label_mouse_press, lines 936-951: the editor is accepted with
\* a text that is not blank; a name that another tile has is refused
SetName(tile, text) ==
    LET current_name == IF tile \in DOMAIN tile_names THEN tile_names[tile] ELSE <<>>
        name == Strip(text)
    IN /\ edits < MaxEdits
       /\ name # <<>>
       /\ ~(name \in Values(tile_names) /\ current_name # name)
       /\ tile_names' = WithName(tile_names, tile, name)
       /\ push("Set name",
               IF current_name # <<>> THEN OneName(tile, current_name) ELSE NoNames,
               OneName(tile, name))
       /\ Recorded("set", <<>>)
       /\ UNCHANGED <<WindowFrame, undo_ret>>

\* lines 936-958: the editor is accepted with a blank text on a tile that
\* has a name
ClearName(tile, text) ==
    /\ edits < MaxEdits
    /\ Strip(text) = <<>>
    /\ tile \in DOMAIN tile_names
    /\ tile_names' = WithoutName(tile_names, tile)
    /\ push("Clear name", OneName(tile, tile_names[tile]), NoNames)
    /\ Recorded("clear_one", <<>>)
    /\ UNCHANGED <<WindowFrame, undo_ret>>

\* clear_tile_names, lines 1044-1050
clear_tile_names ==
    /\ edits < MaxEdits
    /\ tile_names # NoNames
    /\ tile_names' = NoNames
    /\ push("Clear all names", tile_names, NoNames)
    /\ Recorded("clear_all", <<>>)
    /\ UNCHANGED <<WindowFrame, undo_ret>>

\* import_names, lines 716-738: the file is read (names) or reading it
\* raises, and then the old names are put back and nothing is pushed
import_names(names, ok) ==
    /\ edits < MaxEdits
    /\ IF ok
         THEN /\ tile_names' = names
              /\ push("Import names", tile_names, names)
              /\ Recorded("import", <<>>)
         ELSE /\ UNCHANGED <<tile_names, undo_stack, redo_stack>>
              /\ Recorded("import_failed", <<>>)
    /\ UNCHANGED <<WindowFrame, undo_ret>>

\* load_template, lines 785-805
load_template(names) ==
    /\ edits < MaxEdits
    /\ tile_names' = names
    /\ push("Load template", tile_names, names)
    /\ Recorded("template", <<>>)
    /\ UNCHANGED <<WindowFrame, undo_ret>>

\* Opening or dropping a front image, lines 501 and 516: the names are
\* cleared and nothing is pushed
open_front_image ==
    /\ edits < MaxEdits
    /\ tile_names' = NoNames
    /\ Recorded("open", <<>>)
    /\ UNCHANGED <<WindowFrame, undo_stack, redo_stack, undo_ret>>

\* if state: of lines 683 and 690, on what undo or redo returned
Truthy(returned) == returned # None /\ returned[1] # NoNames

\* ImageSplitter.undo, lines 680-685
ImageSplitter_undo ==
    /\ edits < MaxEdits
    /\ can_undo
    /\ undo
    /\ tile_names' = IF Truthy(undo_ret') THEN undo_ret'[1] ELSE tile_names
    /\ Recorded("undo", <<>>)
    /\ UNCHANGED WindowFrame

\* ImageSplitter.redo, lines 687-692
ImageSplitter_redo ==
    /\ edits < MaxEdits
    /\ can_redo
    /\ redo
    /\ tile_names' = IF Truthy(undo_ret') THEN undo_ret'[1] ELSE tile_names
    /\ Recorded("redo", <<>>)
    /\ UNCHANGED WindowFrame

WindowNext ==
    \/ \E tile \in Tiles, text \in NameTexts : SetName(tile, text)
    \/ \E tile \in Tiles, text \in NameTexts : ClearName(tile, text)
    \/ clear_tile_names
    \/ \E names \in ImportedNames, ok \in BOOLEAN : import_names(names, ok)
    \/ \E names \in ImportedNames : load_template(names)
    \/ open_front_image
    \/ ImageSplitter_undo
    \/ ImageSplitter_redo

\* The main window with its UndoManager() and the operations on the names
WindowSpec == Init /\ [][WindowNext]_vars

\* The operations that change the tile names and push an action
NameChanges == {"set", "clear_one", "clear_all", "import", "template"}

\* tile_names before the last operation and before the one before it
NamesBeforeLast == names_before[Len(names_before)]
NamesBeforeLastTwo == names_before[1]

\* C36: an undo made right after a change of the tile names (set one name,
\* clear one name, clear all, import, load template) leaves tile_names as
\* it was before that change.
C36_UndoRestoresNames ==
    \A change \in NameChanges :
       LastTwoOps(change, "undo") => tile_names = NamesBeforeLastTwo

\* C37: a redo made right after an undo leaves tile_names as it was before
\* the undo, also when the action undone had emptied the mapping.
C37_RedoRestoresNames ==
    LastTwoOps("undo", "redo") => tile_names = NamesBeforeLastTwo

\* C36 for the cases where it holds: clear all, and an import or a template
\* loaded over names that were not empty
C36_UndoOfWholeMapping ==
    /\ LastTwoOps("clear_all", "undo") => tile_names = NamesBeforeLastTwo
    /\ \A change \in {"import", "template"} :
          (LastTwoOps(change, "undo") /\ NamesBeforeLastTwo # NoNames) =>
             tile_names = NamesBeforeLastTwo

\* ------------------------------------------------ rate limit before each GET
\* A call of _rate_limit or a GET of the session, made on an instance
Event(kind, inst) == [kind |-> kind, inst |-> inst]
RateLimitOn(inst) == Event("rate_limit", inst)
GetOn(inst) == Event("get", inst)

\* Thread t has made these calls, in this order
Sent(t, events) == wire' = [wire EXCEPT ![t] = Last2(@ \o events)]

\* lines 96-117: self._rate_limit() of line 96, the GET of line 106 and,
\* when the fallback follows, self._rate_limit() of line 117
GetAllWired(t, answers) ==
    \E r \in answers :
       /\ GetAllOn(t, r)
       /\ Sent(t, <<RateLimitOn(self[t]), GetOn(self[t])>>
                  \o IF pc'[t] = "get_ep" THEN <<RateLimitOn(self[t])>> ELSE <<>>)
       /\ UNCHANGED received

\* A fallback loop that calls _rate_limit before its first request only
GetEndpointWired_LimitOnce(t, answers) ==
    \E r \in answers :
       /\ GetEndpointOn(t, r)
       /\ Sent(t, IF ep[t] = 1
                    THEN <<RateLimitOn(self[t]), GetOn(self[t])>>
                    ELSE <<GetOn(self[t])>>)
       /\ UNCHANGED received

\* lines 125-133: self._rate_limit() of line 126 and the GET of line 133,
\* once for each endpoint of the loop
GetEndpointWired(t, answers) ==
    \E r \in answers :
       /\ GetEndpointOn(t, r)
       /\ Sent(t, <<RateLimitOn(self[t]), GetOn(self[t])>>)
       /\ UNCHANGED received

\* lines 51-59: self._rate_limit() of line 52 and the GET of line 59, once
\* for each endpoint variant of the loop
GetCardFetchWired(t) ==
    /\ GetCardFetchOn(t)
    /\ Sent(t, <<RateLimitOn(self[t]), GetOn(self[t])>>)

WireStep(t) ==
    \/ CallEnsure(t, NumInstances, MaxCalls)
    \/ GetCardHit(t, FewCodes, MaxCalls)
    \/ GetCardMiss(t, FewCodes, MaxCalls)
    \/ FastPath(t)
    \/ Sync1(t)
    \/ Sync2(t)
    \/ Sync3(t)
    \/ Sync4(t)
    \/ Sync4Return(t)
    \/ LockedPopulated(t)
    \/ LockedLoading(t)
    \/ SetLoading(t)
    \/ StartLoader(t)
    \/ GetAllWired(t, FewResponses)
    \/ GetEndpointWired(t, FewResponses)
    \/ FallbackDone(t)
    \/ Build(t)
    \/ Publish1(t)
    \/ Publish2(t)
    \/ Publish3(t)
    \/ Publish4(t)
    \/ Loaded(t)
    \/ Finally(t)
    \/ GetCardFetchWired(t)

\* Two callers, which may share an instance
WireThreads == {1, 2}

WireNext == \E t \in WireThreads : WireStep(t)

\* The operations of Spec made by two threads, with the calls of
\* _rate_limit and the GETs of each thread kept in wire
WireSpec == Init /\ [][WireNext]_vars

UiThread == 2

\* get_card_name_suggestions(partial_name, limit = 200, ...),
\* arkhamdb_api.py line 279
DefaultSuggestLimit == 200

\* Handlers run by the interface thread in one run, and the texts typed
MaxUiCalls == 3
QueryTexts == { <<>>, <<"X">>, <<"X", "y">> }

\* A handler starts only when the interface thread is not inside another
UiIdle == pc[UiThread] = "idle" /\ calls < MaxUiCalls

\* _perform_search, lines 283-288, up to the call of _ensure_cards_loaded
\* at arkhamdb_api.py line 198 on the dialog's instance; include_encounter
\* is the state of the check box
PerformSearch(d, text) ==
    /\ op' = [op EXCEPT ![UiThread] = "suggest"]
    /\ query' = [query EXCEPT ![UiThread] = <<text>>]
    /\ limit' = [limit EXCEPT ![UiThread] = <<DefaultSuggestLimit>>]
    /\ \E e \in BOOLEAN :
          include_encounter' = [include_encounter EXCEPT ![UiThread] = e]
    /\ combined' = [combined EXCEPT ![UiThread] = <<>>]
    /\ self' = [self EXCEPT ![UiThread] = d]
    /\ result' = [result EXCEPT ![UiThread] = "none"]
    /\ pc' = [pc EXCEPT ![UiThread] = "fast"]

\* The handler returns without a call of the engine
NoSearch == UNCHANGED <<pc, self, result, searchVars>>

\* What the handlers of the dialog leave alone
DialogFrame ==
    <<sharedVars, _shared_loading, _cache_lock, heapVars,
      cards, search_index, gen, site, ep, success, exc, ret, arg,
      instUsed, owner, loaderRuns, transitions, failedRuns, concurrentStart,
      fetched, received, rateVars, attempts, run_success, finished,
      wire, undoVars>>

\* CardSearchDialog.__init__, lines 40-54, for a dialog opened later than
\* dialog 1: ArkhamDBAPI() takes the shared references as they are now
\* (arkhamdb_api.py lines 23-26), cards_loaded is bool(_all_cards_cache)
OpenDialog(d) ==
    /\ UiIdle
    /\ d # 1
    /\ calls' = calls + 1
    /\ _all_cards_cache' = [_all_cards_cache EXCEPT ![d] = _shared_all_cards_cache]
    /\ _cards_cache' = [_cards_cache EXCEPT ![d] = _shared_cards_cache]
    /\ _search_index' = [_search_index EXCEPT ![d] = _shared_search_index]
    /\ _index_by_code' = [_index_by_code EXCEPT ![d] = _shared_index_by_code]
    /\ LET loaded == /\ _shared_all_cards_cache # NoneRef
                     /\ heapAll[_shared_all_cards_cache] # <<>>
       IN /\ cards_loaded' = [cards_loaded EXCEPT ![d] = loaded]
          /\ results_info' = [results_info EXCEPT ![d] =
                                 IF loaded THEN "ready" ELSE "loading"]
          /\ loader_thread' = [loader_thread EXCEPT ![d] =
                                  IF loaded THEN "none" ELSE "pending"]
    /\ _last_query' = [_last_query EXCEPT ![d] = <<>>]
    /\ NoSearch
    /\ UNCHANGED DialogFrame

\* _on_search_changed without the test of cards_loaded
OnSearchChanged_NoGuard(d, text) ==
    /\ UiIdle
    /\ calls' = calls + 1
    /\ _last_query' = [_last_query EXCEPT ![d] = text]
    /\ IF Len(text) < 2
         THEN /\ results_info' = [results_info EXCEPT ![d] = "ready"]
              /\ NoSearch
         ELSE /\ PerformSearch(d, text)
              /\ UNCHANGED results_info
    /\ UNCHANGED <<DialogFrame, instVars, loader_thread, cards_loaded>>

\* _on_search_changed, lines 264-281
OnSearchChanged(d, text) ==
    /\ UiIdle
    /\ calls' = calls + 1
    /\ _last_query' = [_last_query EXCEPT ![d] = text]
    /\ IF ~cards_loaded[d]
         THEN /\ results_info' = [results_info EXCEPT ![d] =
                                     IF Len(text) >= 2 THEN "loading" ELSE @]
              /\ NoSearch
         ELSE IF Len(text) < 2
           THEN /\ results_info' = [results_info EXCEPT ![d] = "ready"]
                /\ NoSearch
           ELSE /\ PerformSearch(d, text)
                /\ UNCHANGED results_info
    /\ UNCHANGED <<DialogFrame, instVars, loader_thread, cards_loaded>>

\* _on_encounter_filter_changed, lines 426-430: the text of the search box
\* is the one the last textChanged delivered
OnEncounterFilterChanged(d) ==
    /\ Len(_last_query[d]) >= 2
    /\ OnSearchChanged(d, _last_query[d])

\* _on_cards_loaded, lines 250-262, with the search of lines 259-260
OnCardsLoadedSearch(d) ==
    /\ UiIdle
    /\ loader_thread[d] = "running"
    /\ finished[d] # <<>>
    /\ finished[d][1] \/ _all_cards_cache[d] # NoneRef
    /\ Len(_last_query[d]) >= 2
    /\ calls' = calls + 1
    /\ cards_loaded' = [cards_loaded EXCEPT ![d] = TRUE]
    /\ results_info' = [results_info EXCEPT ![d] = "ready"]
    /\ loader_thread' = [loader_thread EXCEPT ![d] = "none"]
    /\ PerformSearch(d, _last_query[d])
    /\ UNCHANGED <<DialogFrame, instVars, _last_query>>

\* Dialog 1, open from the start, and a dialog opened later
Dialogs == {1, 2}

\* The handlers of the dialogs, each run by the interface thread
DialogHandlers ==
    \/ \E d \in Dialogs : OpenDialog(d)
    \/ \E d \in Dialogs, text \in QueryTexts : OnSearchChanged(d, text)
    \/ \E d \in Dialogs : OnEncounterFilterChanged(d)
    \/ \E d \in Dialogs : OnCardsLoadedSearch(d)
    \/ (pc[UiThread] = "idle" /\ OnCardsLoaded(1))

\* The steps of _ensure_cards_loaded for the two threads of this
\* specification: only one of them ever asks for the lock, so that the
\* branches of lines 77-82 (the cache populated, or being loaded, by
\* another thread while this one waited for the lock) are not taken
EnsureUncontended(t) ==
    \/ FastPath(t)
    \/ Sync1(t)
    \/ Sync2(t)
    \/ Sync3(t)
    \/ Sync4(t)
    \/ Sync4Return(t)
    \/ SetLoading(t)
    \/ StartLoader(t)
    \/ GetAll(t, FewResponses)
    \/ GetEndpoint(t, FewResponses)
    \/ FallbackDone(t)
    \/ Build(t)
    \/ Publish1(t)
    \/ Publish2(t)
    \/ Publish3(t)
    \/ Publish4(t)
    \/ Loaded(t)
    \/ Finally(t)

\* The loader thread of dialog 1
DialogLoader ==
    \/ StartLoading(1)
    \/ RunCall(1)
    \/ RunExhausted(1)
    \/ RunReturned(1)
    \/ RunWake(1)
    \/ RunEmit(1)
    \/ EnsureUncontended(1)

DialogNext ==
    \/ DialogHandlers
    \/ DialogLoader
    \/ EnsureUncontended(UiThread)
    \/ SearchReturn(UiThread)

\* Dialog 1 with its loader thread, dialogs opened later, and the
\* interface thread that runs their handlers and their searches
DialogSpec == Init /\ [][DialogNext]_vars

\* Where the interface thread is when it makes no request and waits for
\* nothing: outside a call, on the fast path of _ensure_cards_loaded, or in
\* the scan of search_cards
UiPcs == {"idle", "fast", "search"} \cup SyncPcs

\* C35: the dialog calls the engine's search only while its cards_loaded is
\* true, cards_loaded is true only when the shared cache is Populated, and
\* so a search of the dialog never takes the interface thread to the lock
\* or into the catalog loader.
C35_DialogSearchesOnLoadedCache ==
    /\ \A d \in Threads : cards_loaded[d] => Populated
    /\ pc[UiThread] # "idle" => cards_loaded[self[UiThread]]
    /\ pc[UiThread] \in UiPcs
    /\ ~InLoader(UiThread)

\* a search from a dialog opened on the populated cache, and one made by
\* _on_cards_loaded for the text typed during the load, have come back from
\* _ensure_cards_loaded
C35_Witness ==
    /\ pc[UiThread] = "search"
    /\ result[UiThread] = "true"
    /\ cards_loaded[self[UiThread]]
    /\ finished[1] = <<TRUE>>

====
